---- MODULE Spec2Model ----
(***************************************************************************)
(* Model of the incremental batch-translation pipeline of Spyder-Scribe:   *)
(* the array stream parser (services/streamParser), the translation cache  *)
(* (services/cache), the provider dispatch (services/translation, the      *)
(* chunked OpenAI provider) and the two orchestration modes of             *)
(* handlers/messages.ts (processBatch and processBatchStream).             *)
(*                                                                         *)
(* Conventions.  A JavaScript string is a sequence of one-character        *)
(* strings.  Indices are 0-based as in the code; At0(s, k) reads the       *)
(* JavaScript array element s[k] and yields Undefined out of range.        *)
(***************************************************************************)
EXTENDS Integers, Sequences, FiniteSets, TLC

----------------------------------------------------------------------------
(* JavaScript values that are not strings *)

\* undefined and null where a string is expected (neither is a sequence of
\* one-character strings), and undefined where an index is expected
Undefined == <<"undefined">>
Null == <<"null">>
UndefinedIndex == -1

\* s[k] of a JavaScript array of strings held as a TLA+ sequence
At0(s, k) == IF k + 1 \in DOMAIN s THEN s[k + 1] ELSE Undefined

\* s[k] of a JavaScript array of indices
AtIndex0(s, k) == IF k + 1 \in DOMAIN s THEN s[k + 1] ELSE UndefinedIndex

\* `${x}` of a template literal
Str(x) == IF x = Undefined THEN <<"u", "n", "d", "e", "f", "i", "n", "e", "d">> ELSE x

----------------------------------------------------------------------------
(* JSON.parse, restricted to what it decides for one array element         *)

JsonWs == {" ", "\n", "\r", "\t"}
SimpleEscapes == {"\"", "\\", "/", "b", "f", "n", "r", "t"}
HexDigits == {"0", "1", "2", "3", "4", "5", "6", "7", "8", "9",
              "a", "b", "c", "d", "e", "f", "A", "B", "C", "D", "E", "F"}
Digits == {"0", "1", "2", "3", "4", "5", "6", "7", "8", "9"}

\* String.prototype.trim
RECURSIVE TrimLeft(_)
TrimLeft(s) == IF s # <<>> /\ Head(s) \in JsonWs THEN TrimLeft(Tail(s)) ELSE s

RECURSIVE TrimRight(_)
TrimRight(s) ==
    IF s # <<>> /\ s[Len(s)] \in JsonWs THEN TrimRight(SubSeq(s, 1, Len(s) - 1)) ELSE s

Trim(s) == TrimRight(TrimLeft(s))

RECURSIVE SkipWs(_, _)
SkipWs(s, i) == IF i <= Len(s) /\ s[i] \in JsonWs THEN SkipWs(s, i + 1) ELSE i

\* i is the position after the opening quote; the result is the position
\* after the closing quote, or 0 when the string literal is malformed
RECURSIVE ScanString(_, _)
ScanString(s, i) ==
    IF i > Len(s) THEN 0
    ELSE IF s[i] = "\"" THEN i + 1
    ELSE IF s[i] = "\\" THEN
        IF i + 1 > Len(s) THEN 0
        ELSE IF s[i + 1] \in SimpleEscapes THEN ScanString(s, i + 2)
        ELSE IF s[i + 1] = "u" /\ i + 5 <= Len(s)
                /\ \A k \in 2..5 : s[i + k] \in HexDigits THEN ScanString(s, i + 6)
        ELSE 0
    ELSE IF s[i] \in {"\n", "\r", "\t"} THEN 0
    ELSE ScanString(s, i + 1)

Unescape(c) ==
    CASE c = "n" -> "\n"
      [] c = "r" -> "\r"
      [] c = "t" -> "\t"
      [] c = "b" -> "\\b"
      [] c = "f" -> "\f"
      [] OTHER -> c

\* the decoded text of a well-formed string literal; i is the position after
\* the opening quote.  A \uXXXX escape decodes to the one token "U+" followed
\* by its four digits
RECURSIVE DecodeString(_, _)
DecodeString(s, i) ==
    IF i > Len(s) \/ s[i] = "\"" THEN <<>>
    ELSE IF s[i] = "\\" THEN
        IF s[i + 1] = "u"
        THEN <<"U+">> \o SubSeq(s, i + 2, i + 5) \o DecodeString(s, i + 6)
        ELSE <<Unescape(s[i + 1])>> \o DecodeString(s, i + 2)
    ELSE <<s[i]>> \o DecodeString(s, i + 1)

RECURSIVE ScanDigits(_, _)
ScanDigits(s, i) == IF i <= Len(s) /\ s[i] \in Digits THEN ScanDigits(s, i + 1) ELSE i

\* a JSON number starting at i: the position after it, or 0.  Each part
\* takes the position the part before it ended at, 0 when it failed
NumberSign(s, i) == IF i <= Len(s) /\ s[i] = "-" THEN i + 1 ELSE i

NumberInt(s, i) ==
    IF i > Len(s) \/ s[i] \notin Digits THEN 0
    ELSE IF s[i] = "0" THEN i + 1 ELSE ScanDigits(s, i)

\* at least one digit from i on
DigitsEnd(i, e) == IF e = i THEN 0 ELSE e

NumberFrac(s, i) ==
    IF i = 0 THEN 0
    ELSE IF i <= Len(s) /\ s[i] = "." THEN DigitsEnd(i + 1, ScanDigits(s, i + 1))
    ELSE i

ExpDigits(s, j) == DigitsEnd(j, ScanDigits(s, j))

NumberExp(s, i) ==
    IF i = 0 THEN 0
    ELSE IF i <= Len(s) /\ s[i] \in {"e", "E"}
    THEN ExpDigits(s, IF i + 1 <= Len(s) /\ s[i + 1] \in {"+", "-"} THEN i + 2 ELSE i + 1)
    ELSE i

ScanNumber(s, i) == NumberExp(s, NumberFrac(s, NumberInt(s, NumberSign(s, i))))

ScanLiteral(s, i, lit) ==
    IF i + Len(lit) - 1 <= Len(s) /\ SubSeq(s, i, i + Len(lit) - 1) = lit
    THEN i + Len(lit) ELSE 0

\* a JSON value starting at the non-blank position i: the position after
\* it, or 0 when no value starts there
RECURSIVE ScanValue(_, _)
RECURSIVE ArrayFrom(_, _)
RECURSIVE ArrayNext(_, _)
RECURSIVE ObjectFrom(_, _)
RECURSIVE ObjectColon(_, _)
RECURSIVE ObjectNext(_, _)

ScanValue(s, i) ==
    IF i > Len(s) THEN 0
    ELSE IF s[i] = "\"" THEN ScanString(s, i + 1)
    ELSE IF s[i] = "[" THEN ArrayFrom(s, SkipWs(s, i + 1))
    ELSE IF s[i] = "{" THEN ObjectFrom(s, SkipWs(s, i + 1))
    ELSE IF s[i] = "t" THEN ScanLiteral(s, i, <<"t", "r", "u", "e">>)
    ELSE IF s[i] = "f" THEN ScanLiteral(s, i, <<"f", "a", "l", "s", "e">>)
    ELSE IF s[i] = "n" THEN ScanLiteral(s, i, <<"n", "u", "l", "l">>)
    ELSE ScanNumber(s, i)

\* j is the non-blank position after "[": the array is empty or its first
\* member starts there
ArrayFrom(s, j) ==
    IF j <= Len(s) /\ s[j] = "]" THEN j + 1 ELSE ArrayNext(s, ScanValue(s, j))

\* e is the position after a member, 0 when the member is malformed
ArrayNext(s, e) ==
    IF e = 0 \/ SkipWs(s, e) > Len(s) THEN 0
    ELSE IF s[SkipWs(s, e)] = "]" THEN SkipWs(s, e) + 1
    ELSE IF s[SkipWs(s, e)] = ","
    THEN ArrayNext(s, ScanValue(s, SkipWs(s, SkipWs(s, e) + 1)))
    ELSE 0

\* j is the non-blank position after "{": the object is empty or its first
\* key starts there
ObjectFrom(s, j) ==
    IF j <= Len(s) /\ s[j] = "}" THEN j + 1
    ELSE IF j <= Len(s) /\ s[j] = "\"" THEN ObjectColon(s, ScanString(s, j + 1))
    ELSE 0

\* k is the position after a key, 0 when the key is malformed
ObjectColon(s, k) ==
    IF k = 0 \/ SkipWs(s, k) > Len(s) \/ s[SkipWs(s, k)] # ":" THEN 0
    ELSE ObjectNext(s, ScanValue(s, SkipWs(s, SkipWs(s, k) + 1)))

\* e is the position after a member's value, 0 when it is malformed
ObjectNext(s, e) ==
    IF e = 0 \/ SkipWs(s, e) > Len(s) THEN 0
    ELSE IF s[SkipWs(s, e)] = "}" THEN SkipWs(s, e) + 1
    ELSE IF s[SkipWs(s, e)] = "," /\ SkipWs(s, SkipWs(s, e) + 1) <= Len(s)
            /\ s[SkipWs(s, SkipWs(s, e) + 1)] = "\""
    THEN ObjectColon(s, ScanString(s, SkipWs(s, SkipWs(s, e) + 1) + 1))
    ELSE 0

\* JSON.parse(s): ok = FALSE when it throws; otherwise whether the value is a
\* string (typeof parsed === 'string') and, if so, the string.  i is the
\* position of the first non-blank character, e the position after the value
JsonParsed(s, i, e) ==
    IF e = 0 \/ SkipWs(s, e) # Len(s) + 1
    THEN [ok |-> FALSE, isString |-> FALSE, value |-> <<>>]
    ELSE IF s[i] = "\""
    THEN [ok |-> TRUE, isString |-> TRUE, value |-> DecodeString(s, i + 1)]
    ELSE [ok |-> TRUE, isString |-> FALSE, value |-> <<>>]

JsonParseAt(s, i) == JsonParsed(s, i, ScanValue(s, i))

JsonParse(s) == JsonParseAt(s, SkipWs(s, 1))

----------------------------------------------------------------------------
(* The array stream parser: createArrayStreamParser                        *)

\* a callback invocation made by the parser, in the order it is made
OnElement(element, index) ==
    [cb |-> "onElement", element |-> element, index |-> index, elements |-> <<>>]
OnComplete(elements) ==
    [cb |-> "onComplete", element |-> <<>>, index |-> 0, elements |-> elements]
OnError ==
    [cb |-> "onError", element |-> <<>>, index |-> 0, elements |-> <<>>]

InitialParserState ==
    [buffer |-> <<>>, inString |-> FALSE, escapeNext |-> FALSE, bracketDepth |-> 0,
     currentElement |-> <<>>, elementIndex |-> 0, elements |-> <<>>, started |-> FALSE]

\* the result of a parser step: the state it leaves and the callbacks it made
Step(st, calls) == [state |-> st, calls |-> calls]

\* variant: the element is emitted as received, without JSON.parse
EmitCurrentElementRaw(st) ==
    LET trimmed == Trim(st.currentElement)
    IN  IF Len(trimmed) = 0 THEN Step(st, <<>>)
        ELSE Step([st EXCEPT !.elements = Append(@, trimmed),
                             !.elementIndex = @ + 1,
                             !.currentElement = <<>>],
                  <<OnElement(trimmed, st.elementIndex)>>)

\* variant: a value that is no string is dropped like an unparsable one
EmitParsedStringsOnly(st, parsed) ==
    IF parsed.ok /\ parsed.isString
    THEN Step([st EXCEPT !.elements = Append(@, parsed.value),
                         !.elementIndex = @ + 1,
                         !.currentElement = <<>>],
              <<OnElement(parsed.value, st.elementIndex)>>)
    ELSE Step([st EXCEPT !.currentElement = <<>>], <<>>)

\* variant: a value that is no string is emitted without advancing the index
EmitParsedScalarsUnindexed(st, parsed) ==
    IF ~parsed.ok THEN Step([st EXCEPT !.currentElement = <<>>], <<>>)
    ELSE IF parsed.isString
    THEN Step([st EXCEPT !.elements = Append(@, parsed.value),
                         !.elementIndex = @ + 1,
                         !.currentElement = <<>>],
              <<OnElement(parsed.value, st.elementIndex)>>)
    ELSE Step([st EXCEPT !.elements = Append(@, <<>>),
                         !.currentElement = <<>>],
              <<OnElement(<<>>, st.elementIndex)>>)

\* variant: the text of an element that fails to decode stays in the buffer
EmitParsedKeepsBuffer(st, parsed) ==
    IF ~parsed.ok THEN Step(st, <<>>)
    ELSE IF parsed.isString
    THEN Step([st EXCEPT !.elements = Append(@, parsed.value),
                         !.elementIndex = @ + 1,
                         !.currentElement = <<>>],
              <<OnElement(parsed.value, st.elementIndex)>>)
    ELSE Step([st EXCEPT !.elements = Append(@, <<>>),
                         !.elementIndex = @ + 1,
                         !.currentElement = <<>>],
              <<OnElement(<<>>, st.elementIndex)>>)

\* emitCurrentElement after JSON.parse(trimmed)
EmitParsed(st, parsed) ==
    IF ~parsed.ok THEN Step([st EXCEPT !.currentElement = <<>>], <<>>)
    ELSE IF parsed.isString
    THEN Step([st EXCEPT !.elements = Append(@, parsed.value),
                         !.elementIndex = @ + 1,
                         !.currentElement = <<>>],
              <<OnElement(parsed.value, st.elementIndex)>>)
    ELSE Step([st EXCEPT !.elements = Append(@, <<>>),
                         !.elementIndex = @ + 1,
                         !.currentElement = <<>>],
              <<OnElement(<<>>, st.elementIndex)>>)

\* emitCurrentElement after the trim
EmitTrimmed(st, trimmed) ==
    IF Len(trimmed) = 0 THEN Step(st, <<>>) ELSE EmitParsed(st, JsonParse(trimmed))

EmitCurrentElement(st) == EmitTrimmed(st, Trim(st.currentElement))

\* the top-level "]": the element before it has been emitted, onComplete
CloseArray(e) == Step(e.state, Append(e.calls, OnComplete(e.state.elements)))

\* variant: a quote after a backslash ends the string like any other quote
ProcessCharQuoteUnescaped(st, char) ==
    IF st.escapeNext /\ char # "\""
    THEN Step([st EXCEPT !.escapeNext = FALSE, !.currentElement = Append(@, char)], <<>>)
    ELSE IF char = "\\" /\ st.inString
    THEN Step([st EXCEPT !.escapeNext = TRUE, !.currentElement = Append(@, char)], <<>>)
    ELSE IF char = "\""
    THEN Step([st EXCEPT !.inString = ~@, !.currentElement = Append(@, char)], <<>>)
    ELSE IF st.inString
    THEN Step([st EXCEPT !.currentElement = Append(@, char)], <<>>)
    ELSE IF char = "["
    THEN IF ~st.started
         THEN Step([st EXCEPT !.started = TRUE], <<>>)
         ELSE Step([st EXCEPT !.bracketDepth = @ + 1,
                              !.currentElement = Append(@, char)], <<>>)
    ELSE IF char = "]"
    THEN IF st.bracketDepth > 0
         THEN Step([st EXCEPT !.bracketDepth = @ - 1,
                              !.currentElement = Append(@, char)], <<>>)
         ELSE CloseArray(EmitCurrentElement(st))
    ELSE IF char = ","
    THEN IF st.bracketDepth = 0
         THEN EmitCurrentElement(st)
         ELSE Step([st EXCEPT !.currentElement = Append(@, char)], <<>>)
    ELSE IF char \in {" ", "\n", "\r", "\t"}
    THEN IF Len(st.currentElement) > 0
         THEN Step([st EXCEPT !.currentElement = Append(@, char)], <<>>)
         ELSE Step(st, <<>>)
    ELSE Step([st EXCEPT !.currentElement = Append(@, char)], <<>>)

\* variant: a comma between elements does not flush the element before it
ProcessCharCommaKept(st, char) ==
    IF st.escapeNext
    THEN Step([st EXCEPT !.escapeNext = FALSE, !.currentElement = Append(@, char)], <<>>)
    ELSE IF char = "\\" /\ st.inString
    THEN Step([st EXCEPT !.escapeNext = TRUE, !.currentElement = Append(@, char)], <<>>)
    ELSE IF char = "\""
    THEN Step([st EXCEPT !.inString = ~@, !.currentElement = Append(@, char)], <<>>)
    ELSE IF st.inString
    THEN Step([st EXCEPT !.currentElement = Append(@, char)], <<>>)
    ELSE IF char = "["
    THEN IF ~st.started
         THEN Step([st EXCEPT !.started = TRUE], <<>>)
         ELSE Step([st EXCEPT !.bracketDepth = @ + 1,
                              !.currentElement = Append(@, char)], <<>>)
    ELSE IF char = "]"
    THEN IF st.bracketDepth > 0
         THEN Step([st EXCEPT !.bracketDepth = @ - 1,
                              !.currentElement = Append(@, char)], <<>>)
         ELSE CloseArray(EmitCurrentElement(st))
    ELSE IF char = ","
    THEN Step([st EXCEPT !.currentElement = Append(@, char)], <<>>)
    ELSE IF char \in {" ", "\n", "\r", "\t"}
    THEN IF Len(st.currentElement) > 0
         THEN Step([st EXCEPT !.currentElement = Append(@, char)], <<>>)
         ELSE Step(st, <<>>)
    ELSE Step([st EXCEPT !.currentElement = Append(@, char)], <<>>)

ProcessChar(st, char) ==
    IF st.escapeNext
    THEN Step([st EXCEPT !.escapeNext = FALSE, !.currentElement = Append(@, char)], <<>>)
    ELSE IF char = "\\" /\ st.inString
    THEN Step([st EXCEPT !.escapeNext = TRUE, !.currentElement = Append(@, char)], <<>>)
    ELSE IF char = "\""
    THEN Step([st EXCEPT !.inString = ~@, !.currentElement = Append(@, char)], <<>>)
    ELSE IF st.inString
    THEN Step([st EXCEPT !.currentElement = Append(@, char)], <<>>)
    ELSE IF char = "["
    THEN IF ~st.started
         THEN Step([st EXCEPT !.started = TRUE], <<>>)
         ELSE Step([st EXCEPT !.bracketDepth = @ + 1,
                              !.currentElement = Append(@, char)], <<>>)
    ELSE IF char = "]"
    THEN IF st.bracketDepth > 0
         THEN Step([st EXCEPT !.bracketDepth = @ - 1,
                              !.currentElement = Append(@, char)], <<>>)
         ELSE CloseArray(EmitCurrentElement(st))
    ELSE IF char = ","
    THEN IF st.bracketDepth = 0
         THEN EmitCurrentElement(st)
         ELSE Step([st EXCEPT !.currentElement = Append(@, char)], <<>>)
    ELSE IF char \in {" ", "\n", "\r", "\t"}
    THEN IF Len(st.currentElement) > 0
         THEN Step([st EXCEPT !.currentElement = Append(@, char)], <<>>)
         ELSE Step(st, <<>>)
    ELSE Step([st EXCEPT !.currentElement = Append(@, char)], <<>>)

\* a step that made the callbacks `calls` followed by the step `step`
After(calls, step) == Step(step.state, calls \o step.calls)

\* parser.feed(chunk): the characters of the chunk in order
RECURSIVE Feed(_, _)
RECURSIVE FeedRest(_, _)
Feed(st, chunk) ==
    IF chunk = <<>> THEN Step(st, <<>>)
    ELSE IF Len(chunk) = 1 THEN ProcessChar(st, chunk[1])
    ELSE FeedRest(Feed(st, SubSeq(chunk, 1, Len(chunk) \div 2)),
                  SubSeq(chunk, Len(chunk) \div 2 + 1, Len(chunk)))

\* the rest of the chunk after the step `first` of the characters before it
\* (f is that step, computed once)
FeedRest(first, chunk) ==
    CHOOSE r \in {After(f.calls, Feed(f.state, chunk)) : f \in {first}} : TRUE

\* end() after the leftover element was emitted
EndCheck(e) ==
    IF Len(e.state.elements) = 0
    THEN Step(e.state, Append(e.calls, OnError))
    ELSE e

\* parser.end()
End(st) ==
    EndCheck(IF Len(Trim(st.currentElement)) > 0 /\ ~st.inString
             THEN EmitCurrentElement(st) ELSE Step(st, <<>>))

----------------------------------------------------------------------------
(* Bounds of the model and the inputs drawn from them                      *)

MaxTexts == 2
MaxFragments == 4

\* the texts a request may carry, and the language pair of the requests
Texts == {<<"x">>, <<"y">>}
Source == <<"e", "n">>
Target == <<"e", "s">>

RECURSIVE SeqsUpTo(_, _)
SeqsUpTo(S, n) ==
    IF n = 0 THEN {<<>>}
    ELSE LET shorter == SeqsUpTo(S, n - 1)
         IN  shorter \cup {Append(q, e) : q \in {r \in shorter : Len(r) = n - 1}, e \in S}

\* the requests: the non-empty lists of at most MaxTexts texts that start with
\* the text "x" (exchanging the two texts maps every other request, with
\* its cache, to one of these)
Requests == {r \in SeqsUpTo(Texts, MaxTexts) : r # <<>> /\ r[1] = <<"x">>}

\* the translation an entry present at start holds for a text
StoredTranslation(text) == <<"c">> \o text

\* the text fragments a provider stream delivers to onChunk
Fragments ==
    { <<"[">>, <<"]">>, <<"\"", "a", "\"">>, <<",", "\"", "b", "\"">> }

\* the arrays a provider's batch form returns for m texts
BatchValues == {<<"a">>, <<"b">>}
BatchResults(m) == {r \in SeqsUpTo(BatchValues, m + 1) : Len(r) >= m - 1}

----------------------------------------------------------------------------
(* lib/errors.ts                                                           *)

NoCode == "none"

\* an error that is no TranslationError
OtherError == "Error"

\* the canonical kinds a provider gateway raises as a TranslationError
GatewayCodes ==
    {"NETWORK_ERROR", "INVALID_API_KEY", "RATE_LIMITED", "TIMEOUT_ERROR", "API_ERROR",
     "INVALID_RESPONSE", "JSON_PARSE_ERROR", "RESPONSE_MISMATCH"}

\* the kinds a streaming provider call raises before its first read
StreamCallCodes ==
    {"NETWORK_ERROR", "INVALID_API_KEY", "RATE_LIMITED", "TIMEOUT_ERROR", "API_ERROR",
     "INVALID_RESPONSE"}

----------------------------------------------------------------------------
(* services/cache.ts: TranslationCache                                     *)

MEMORY_LIMIT == 500
TTL_MS == 604800000

MakeKey(source, target, text) == Str(source) \o <<":">> \o Str(target) \o <<":">> \o Str(text)

\* the hot tier is a Map: its entries in insertion order
MemHas(mem, key) == \E i \in DOMAIN mem : mem[i].key = key
MemGet(mem, key) == mem[CHOOSE i \in DOMAIN mem : mem[i].key = key].value
MemDelete(mem, key) == SelectSeq(mem, LAMBDA e : e.key # key)
MemSet(mem, key, value) ==
    IF MemHas(mem, key)
    THEN [i \in DOMAIN mem |-> IF mem[i].key = key THEN [key |-> key, value |-> value] ELSE mem[i]]
    ELSE Append(mem, [key |-> key, value |-> value])

\* variant: the entry is added without deleting the one the key has
AddToMemoryAppends(mem, key, value) ==
    IF Len(mem) + 1 > MEMORY_LIMIT
    THEN Tail(Append(mem, [key |-> key, value |-> value]))
    ELSE Append(mem, [key |-> key, value |-> value])

\* variant: the hot tier is never pruned
AddToMemoryUnpruned(mem, key, value) == MemSet(MemDelete(mem, key), key, value)

\* variant: a key the hot tier holds keeps its place
AddToMemoryKeepsPlace(mem, key, value) ==
    IF Len(MemSet(mem, key, value)) > MEMORY_LIMIT
    THEN Tail(MemSet(mem, key, value))
    ELSE MemSet(mem, key, value)

AddToMemory(mem, key, value) ==
    LET added == MemSet(MemDelete(mem, key), key, value)
    IN  IF Len(added) > MEMORY_LIMIT THEN Tail(added) ELSE added

\* the cold tier is an object store with keyPath 'key'
DbHas(store, key) == \E e \in store : e.key = key
DbGet(store, key) == CHOOSE e \in store : e.key = key
DbDelete(store, key) == {e \in store : e.key # key}
DbPut(store, entry) == DbDelete(store, entry.key) \cup {entry}

\* a readwrite transaction waiting in the cold tier; owner is the position
\* (in the list sent to the provider) of the awaited set() it belongs to,
\* or Detached when nothing awaits it
Detached == -1
PutTx(key, translation, createdAt, owner) ==
    [op |-> "put", key |-> key, translation |-> translation, createdAt |-> createdAt,
     owner |-> owner]
DeleteTx(key) ==
    [op |-> "delete", key |-> key, translation |-> <<>>, createdAt |-> 0, owner |-> Detached]

ApplyTx(store, tx) ==
    IF tx.op = "put"
    THEN DbPut(store, [key |-> tx.key, translation |-> tx.translation,
                       createdAt |-> tx.createdAt])
    ELSE DbDelete(store, tx.key)

----------------------------------------------------------------------------
(* services/translation.ts: provider dispatch                              *)

OPENAI_MAX_ITEMS_PER_BATCH == 20

Models ==
    { <<>>, <<"g", "r", "o", "k", "-", "3">>, <<"g", "p", "t", "-", "4">>,
      <<"g", "e", "m", "i", "n", "i">> }
ApiKeys == {<<>>, <<"k">>}
Settings ==
    [selectedModel : Models, geminiApiKey : ApiKeys, grokApiKey : ApiKeys,
     openaiApiKey : ApiKeys]

StartsWith(s, prefix) ==
    Len(s) >= Len(prefix) /\ SubSeq(s, 1, Len(prefix)) = prefix

\* variant: the Gemini credential is required whatever the model
CallAINeedsGeminiKey(model, gemKey, grokKey, openaiKey) ==
    LET isGrok == model # <<>> /\ StartsWith(model, <<"g", "r", "o", "k">>)
        isOpenAI == model # <<>> /\ StartsWith(model, <<"g", "p", "t">>)
    IN  IF gemKey = <<>>
        THEN [error |-> "GEMINI_API_KEY_MISSING", provider |-> "none"]
        ELSE IF isGrok /\ grokKey = <<>>
        THEN [error |-> "GROK_API_KEY_MISSING", provider |-> "none"]
        ELSE IF isOpenAI /\ openaiKey = <<>>
        THEN [error |-> "OPENAI_API_KEY_MISSING", provider |-> "none"]
        ELSE [error |-> NoCode,
              provider |-> IF isGrok THEN "grok" ELSE IF isOpenAI THEN "openai" ELSE "gemini"]

\* callAI up to the provider call: the TranslationError it throws for a
\* missing credential (NoCode when none) and the provider it calls
CallAI(model, gemKey, grokKey, openaiKey) ==
    LET isGrok == model # <<>> /\ StartsWith(model, <<"g", "r", "o", "k">>)
        isOpenAI == model # <<>> /\ StartsWith(model, <<"g", "p", "t">>)
    IN  IF isGrok /\ grokKey = <<>>
        THEN [error |-> "GROK_API_KEY_MISSING", provider |-> "none"]
        ELSE IF isOpenAI /\ openaiKey = <<>>
        THEN [error |-> "OPENAI_API_KEY_MISSING", provider |-> "none"]
        ELSE IF ~isGrok /\ ~isOpenAI /\ gemKey = <<>>
        THEN [error |-> "GEMINI_API_KEY_MISSING", provider |-> "none"]
        ELSE [error |-> NoCode,
              provider |-> IF isGrok THEN "grok" ELSE IF isOpenAI THEN "openai" ELSE "gemini"]

\* callAIStream up to the provider call (same routing as callAI)
CallAIStream(model, gemKey, grokKey, openaiKey) ==
    LET isGrok == model # <<>> /\ StartsWith(model, <<"g", "r", "o", "k">>)
        isOpenAI == model # <<>> /\ StartsWith(model, <<"g", "p", "t">>)
    IN  IF isGrok /\ grokKey = <<>>
        THEN [error |-> "GROK_API_KEY_MISSING", provider |-> "none"]
        ELSE IF isOpenAI /\ openaiKey = <<>>
        THEN [error |-> "OPENAI_API_KEY_MISSING", provider |-> "none"]
        ELSE IF ~isGrok /\ ~isOpenAI /\ gemKey = <<>>
        THEN [error |-> "GEMINI_API_KEY_MISSING", provider |-> "none"]
        ELSE [error |-> NoCode,
              provider |-> IF isGrok THEN "grok" ELSE IF isOpenAI THEN "openai" ELSE "gemini"]

----------------------------------------------------------------------------
(* State                                                                   *)

VARIABLES
    now,              \* Date.now()
    memoryCache,      \* TranslationCache.memoryCache (hot tier)
    db,               \* the entries of the object store (cold tier)
    dbOpen,           \* TranslationCache.db is not null
    dbReads,          \* request indices whose store.get(key) is in flight
    dbWrites,         \* readwrite transactions in flight, in creation order
    microtasks,       \* continuations ready to run, in queue order
    mode,             \* "sync" (processBatch) or "stream" (processBatchStream)
    pc,               \* where the request is
    texts,            \* request.texts
    results,          \* results, by 0-based index
    missingIndices,
    textsToTranslate,
    merged,           \* processBatch: set() continuations that have run
    parser,           \* the state of the parser of processBatchStream
    streamedIndex,
    chunkOffset,      \* fetchOpenAIStream: the loop variable i
    chunkLimit,       \* fetchOpenAIStream: inputArray.length of the chunk loop,
                      \* 0 when the stream is a single provider call
    port,             \* the messages posted on the port, in order
    responses,        \* the arguments of sendResponse, in order
    got,              \* history: what translationCache.get returned, by index
    providerCalls,    \* history: the text lists passed to callAI / callAIStream
    setCalls,         \* history: the translationCache.set calls, in order
    providerReturns,  \* history: the arrays callAI returned
    fedText,          \* history: the text fed to the parser so far
    fragments,        \* history: number of fragments delivered
    cacheBefore,      \* history: the translations both tiers held before the request
    completions,      \* history: the lengths of the lists passed to onComplete
    thrown,           \* history: what callAI / callAIStream threw: the code of a
                      \* TranslationError, OtherError, or NoCode when nothing
    input,            \* parser unit: the text the parser is given, with the
                      \* array it was written from
    parserCalls,      \* parser unit: the callbacks the parser made, in order
    parserEnded,      \* parser unit: end() has been called
    splitInString,    \* history: a feed() call returned inside a string
    dbReady,          \* cache unit: the promise TranslationCache.dbReady is resolved
    cacheOps,         \* cache unit: the get/set/clear calls made, in call order
    txQueue,          \* cache unit: the transactions on the store, in creation order
    accessLog,        \* history: the keys the hot tier was accessed with (set, get
                      \* that hits, promotion from the store), in order
    fetch             \* provider unit: one call of fetchGemini, fetchGrok or
                      \* fetchOpenAI, with the prompts it sent so far

cacheVars == <<now, cacheBefore, memoryCache, db, dbOpen, dbReads, dbWrites>>
requestVars == <<mode, pc, texts, results, missingIndices, textsToTranslate, merged,
                 parser, streamedIndex, chunkOffset, chunkLimit>>
outputVars == <<port, responses>>
historyVars == <<got, providerCalls, providerReturns, setCalls, fedText, fragments,
                 completions, thrown>>
parserUnitVars == <<input, parserCalls, parserEnded, splitInString>>
cacheUnitVars == <<dbReady, cacheOps, txQueue, accessLog>>
providerUnitVars == <<fetch>>
unitVars == <<parserUnitVars, cacheUnitVars, providerUnitVars>>
vars == <<cacheVars, microtasks, requestVars, outputVars, historyVars, unitVars>>

\* messages on the port
CachedMsg(index, text) ==
    [type |-> "cached", index |-> index, text |-> text, translations |-> <<>>,
     errorCode |-> NoCode]
ElementMsg(index, text) ==
    [type |-> "element", index |-> index, text |-> text, translations |-> <<>>,
     errorCode |-> NoCode]
CompleteMsg(translations) ==
    [type |-> "complete", index |-> 0, text |-> <<>>, translations |-> translations,
     errorCode |-> NoCode]
ErrorMsg(errorCode) ==
    [type |-> "error", index |-> 0, text |-> <<>>, translations |-> <<>>,
     errorCode |-> errorCode]

\* TranslationResponse; hasTranslations tells whether the field is present
SuccessResponse(translations) ==
    [success |-> TRUE, hasTranslations |-> TRUE, translations |-> translations,
     errorCode |-> NoCode]
\* variant: a failure response that reports every error as UNKNOWN_ERROR
FailureResponseUncoded(errorCode) ==
    [success |-> FALSE, hasTranslations |-> FALSE, translations |-> <<>>,
     errorCode |-> "UNKNOWN_ERROR"]

FailureResponse(errorCode) ==
    [success |-> FALSE, hasTranslations |-> FALSE, translations |-> <<>>,
     errorCode |-> errorCode]

\* `results as string[]`: the array, without the properties that are no index
ResultArray(res, n) == [i \in 1..n |-> res[i - 1]]

\* the translations the two tiers hold, by key
Contents(mem, store) ==
    {[key |-> mem[i].key, translation |-> mem[i].value] : i \in DOMAIN mem}
        \cup {[key |-> e.key, translation |-> e.translation] : e \in store}

\* the hot tiers a process can hold at the start of a request: some of the
\* texts of an earlier request, in either order
StartMemories ==
    { m \in SeqsUpTo({[key |-> MakeKey(Source, Target, t), value |-> StoredTranslation(t)]
                        : t \in Texts}, Cardinality(Texts)) :
        \A i, j \in DOMAIN m : i # j => m[i].key # m[j].key }

StartDbs ==
    { {[key |-> MakeKey(Source, Target, t), translation |-> StoredTranslation(t),
        createdAt |-> TTL_MS] : t \in S} : S \in SUBSET Texts }

\* no text is given to a parser outside processBatchStream
NoInput == [text |-> <<>>, isArray |-> FALSE, elements |-> <<>>]

ParserUnitIdle ==
    /\ input = NoInput
    /\ parserCalls = <<>>
    /\ parserEnded = FALSE
    /\ splitInString = FALSE

\* the cache has opened (or failed to open) its store and no call of a
\* cache method is in flight but those of the request
CacheUnitIdle ==
    /\ dbReady = TRUE
    /\ cacheOps = <<>>
    /\ txQueue = <<>>
    /\ accessLog = <<>>

\* no provider function is called on its own
NoFetch == [pc |-> "none"]
ProviderUnitIdle == fetch = NoFetch

\* no request has been received and no cache operation is in flight
RequestIdle ==
    /\ dbReads = {}
    /\ dbWrites = <<>>
    /\ microtasks = <<>>
    /\ mode = "none"
    /\ pc = "idle"
    /\ texts = <<>>
    /\ results = <<>>
    /\ missingIndices = <<>>
    /\ textsToTranslate = <<>>
    /\ merged = 0
    /\ parser = InitialParserState
    /\ streamedIndex = 0
    /\ chunkLimit = 0
    /\ chunkOffset = 0
    /\ port = <<>>
    /\ responses = <<>>
    /\ got = <<>>
    /\ providerCalls = <<>>
    /\ setCalls = <<>>
    /\ providerReturns = <<>>
    /\ fedText = <<>>
    /\ fragments = 0
    /\ completions = <<>>
    /\ thrown = NoCode

Init ==
    /\ now = TTL_MS
    /\ memoryCache \in StartMemories
    /\ dbOpen \in BOOLEAN
    /\ db \in IF dbOpen THEN {d \in StartDbs : \A e \in DOMAIN memoryCache :
                                               DbHas(d, memoryCache[e].key)}
              ELSE {{}}
    /\ cacheBefore = Contents(memoryCache, db)
    /\ RequestIdle
    /\ ParserUnitIdle
    /\ CacheUnitIdle
    /\ ProviderUnitIdle

----------------------------------------------------------------------------
(* handlers/messages.ts: the cache lookups of a request                    *)

LookupTask(index, cached) == [kind |-> "lookup", index |-> index, value |-> cached]
SetTask(position, trans) == [kind |-> "set", index |-> position, value |-> trans]

\* texts.map(async ...) up to the first suspension of every callback: the
\* synchronous part of translationCache.get for each text, in index order.
\* A hot-tier hit moves the entry to the end of the Map and resolves; a miss
\* waits for dbReady.
RECURSIVE GetAll(_, _, _)
GetAll(ts, index, acc) ==
    IF index >= Len(ts) THEN acc
    ELSE LET key == MakeKey(Source, Target, ts[index + 1])
         IN  IF MemHas(acc.mem, key)
             THEN LET value == MemGet(acc.mem, key)
                  IN  GetAll(ts, index + 1,
                             [acc EXCEPT !.mem = MemSet(MemDelete(acc.mem, key), key, value),
                                         !.hits = Append(@, LookupTask(index, value))])
             ELSE GetAll(ts, index + 1, [acc EXCEPT !.misses = Append(@, index)])

\* the first part of processBatch and processBatchStream, after the settings
\* were read: every lookup is started.  Hot-tier hits resume first, in index
\* order; without a cold tier the misses resume next with null, in index
\* order; with a cold tier each miss reads the store.
StartLookups(m, ts) ==
    LET all == GetAll(ts, 0, [mem |-> memoryCache, hits |-> <<>>, misses |-> <<>>])
    IN  /\ pc = "idle"
        /\ mode' = m
        /\ pc' = "lookup"
        /\ texts' = ts
        /\ results' = [i \in (0..(Len(ts) - 1)) \cup {UndefinedIndex} |->
                          IF i = UndefinedIndex THEN Undefined ELSE Null]
        /\ memoryCache' = all.mem
        /\ microtasks' = all.hits \o
              (IF dbOpen THEN <<>>
               ELSE [k \in DOMAIN all.misses |-> LookupTask(all.misses[k], Null)])
        /\ dbReads' = IF dbOpen THEN {all.misses[k] : k \in DOMAIN all.misses} ELSE {}
        /\ UNCHANGED <<unitVars, now, cacheBefore, db, dbOpen, dbWrites, missingIndices, textsToTranslate, merged,
                       parser, streamedIndex, chunkOffset, chunkLimit, outputVars, historyVars>>

\* handleMessage with action 'translateBatch'
HandleMessage(ts) == StartLookups("sync", ts)

\* handleStreamingPort with action 'startStreamingTranslation'
HandleStreamingPort(ts) == StartLookups("stream", ts)

\* chrome.storage.sync.get rejects: processBatch rejects and handleMessage
\* answers with UNKNOWN_ERROR
HandleMessageStorageFails(ts) ==
    /\ pc = "idle"
    /\ mode' = "sync"
    /\ pc' = "done"
    /\ texts' = ts
    /\ responses' = Append(responses, FailureResponse("UNKNOWN_ERROR"))
    /\ UNCHANGED <<unitVars, cacheVars, microtasks, results, missingIndices, textsToTranslate, merged,
                   parser, streamedIndex, chunkOffset, chunkLimit, port, historyVars>>

\* store.get(key) succeeds for the lookup of texts[index]: request.onsuccess
DbReadSuccess(index) ==
    LET key == MakeKey(Source, Target, texts[index + 1])
        found == DbHas(db, key)
        entry == DbGet(db, key)
        expired == found /\ now - entry.createdAt > TTL_MS
    IN  /\ pc = "lookup"
        /\ microtasks = <<>>
        /\ index \in dbReads
        /\ dbReads' = dbReads \ {index}
        /\ memoryCache' = IF found /\ ~expired
                          THEN AddToMemory(memoryCache, key, entry.translation)
                          ELSE memoryCache
        /\ dbWrites' = IF expired THEN Append(dbWrites, DeleteTx(key)) ELSE dbWrites
        /\ microtasks' = <<LookupTask(index, IF found /\ ~expired THEN entry.translation
                                             ELSE Null)>>
        /\ UNCHANGED <<unitVars, now, cacheBefore, db, dbOpen, requestVars, outputVars, historyVars>>

\* store.get(key) fails: request.onerror resolves null
DbReadError(index) ==
    /\ pc = "lookup"
    /\ microtasks = <<>>
    /\ index \in dbReads
    /\ dbReads' = dbReads \ {index}
    /\ microtasks' = <<LookupTask(index, Null)>>
    /\ UNCHANGED <<unitVars, now, cacheBefore, memoryCache, db, dbOpen, dbWrites, requestVars, outputVars,
                   historyVars>>

\* the callback of texts.map resumes after `await translationCache.get`
LookupResumes ==
    /\ pc = "lookup"
    /\ microtasks # <<>>
    /\ Head(microtasks).kind = "lookup"
    /\ LET index == Head(microtasks).index
           cached == Head(microtasks).value
       IN  /\ got' = (index :> cached) @@ got
           /\ IF cached # Null
              THEN /\ results' = [results EXCEPT ![index] = cached]
                   /\ port' = IF mode = "stream"
                              THEN Append(port, CachedMsg(index, cached)) ELSE port
                   /\ UNCHANGED <<missingIndices, textsToTranslate>>
              ELSE /\ missingIndices' = Append(missingIndices, index)
                   /\ textsToTranslate' = Append(textsToTranslate, texts[index + 1])
                   /\ UNCHANGED <<results, port>>
    /\ microtasks' = Tail(microtasks)
    /\ UNCHANGED <<unitVars, cacheVars, mode, pc, texts, merged, parser, streamedIndex,
                   chunkOffset, chunkLimit, responses, providerCalls, providerReturns, setCalls,
                   fedText, fragments, completions, thrown>>

\* variant: the request goes on without awaiting the cold-tier reads
LookupsDoneHotOnly ==
    /\ pc = "lookup"
    /\ microtasks = <<>>

\* Promise.all of the lookups has resolved
LookupsDone ==
    /\ pc = "lookup"
    /\ microtasks = <<>>
    /\ dbReads = {}

\* textsToTranslate.length === 0: every text was answered by the cache
AllCached ==
    /\ LookupsDone
    /\ Len(textsToTranslate) = 0
    /\ pc' = "done"
    /\ IF mode = "sync"
       THEN /\ responses' = Append(responses,
                                   SuccessResponse(ResultArray(results, Len(texts))))
            /\ UNCHANGED port
       ELSE /\ port' = Append(port, CompleteMsg(ResultArray(results, Len(texts))))
            /\ UNCHANGED responses
    /\ UNCHANGED <<unitVars, cacheVars, microtasks, mode, texts, results, missingIndices,
                   textsToTranslate, merged, parser, streamedIndex, chunkOffset, chunkLimit,
                   historyVars>>

\* processBatchStream rejects the same way and handleStreamingPort posts the
\* error
HandleStreamingPortStorageFails(ts) ==
    /\ pc = "idle"
    /\ mode' = "stream"
    /\ pc' = "done"
    /\ texts' = ts
    /\ port' = Append(port, ErrorMsg("UNKNOWN_ERROR"))
    /\ UNCHANGED <<unitVars, cacheVars, microtasks, results, missingIndices, textsToTranslate, merged,
                   parser, streamedIndex, chunkOffset, chunkLimit, responses, historyVars>>

----------------------------------------------------------------------------
(* The cold tier completes a readwrite transaction                         *)

\* the set() a transaction belongs to resolves; an awaited one resumes the
\* callback of translatedTexts.map
AfterTx(tx) ==
    IF tx.owner = Detached THEN <<>> ELSE <<SetTask(tx.owner, tx.translation)>>

\* tx.oncomplete
DbWriteDone ==
    /\ dbWrites # <<>>
    /\ microtasks = <<>>
    /\ db' = ApplyTx(db, Head(dbWrites))
    /\ dbWrites' = Tail(dbWrites)
    /\ microtasks' = AfterTx(Head(dbWrites))
    /\ UNCHANGED <<unitVars, now, cacheBefore, memoryCache, dbOpen, dbReads, requestVars, outputVars, historyVars>>

\* tx.onerror: the write is lost and set() resolves all the same
DbWriteError ==
    /\ dbWrites # <<>>
    /\ microtasks = <<>>
    /\ dbWrites' = Tail(dbWrites)
    /\ microtasks' = AfterTx(Head(dbWrites))
    /\ UNCHANGED <<unitVars, now, cacheBefore, memoryCache, db, dbOpen, dbReads, requestVars, outputVars,
                   historyVars>>

----------------------------------------------------------------------------
(* processBatch: the provider call and the merge                           *)

\* callAI(textsToTranslate, ...) with the settings read from storage
CallAIStart(settings) ==
    LET call == CallAI(settings.selectedModel, settings.geminiApiKey,
                       settings.grokApiKey, settings.openaiApiKey)
    IN  /\ LookupsDone
        /\ mode = "sync"
        /\ Len(textsToTranslate) > 0
        /\ providerCalls' = Append(providerCalls, textsToTranslate)
        /\ IF call.error # NoCode
           THEN /\ thrown' = call.error
                /\ responses' = Append(responses, FailureResponse(call.error))
                /\ pc' = "done"
           ELSE /\ pc' = "calling"
                /\ UNCHANGED <<thrown, responses>>
        /\ UNCHANGED <<unitVars, cacheVars, microtasks, mode, texts, results, missingIndices,
                       textsToTranslate, merged, parser, streamedIndex, chunkOffset,
                       chunkLimit, port, got, providerReturns, setCalls, fedText, fragments, completions>>

\* translatedTexts.map(async ...) up to the first suspension of every
\* callback: the synchronous part of translationCache.set for each element
RECURSIVE SetAll(_, _, _)
SetAll(translatedTexts, i, acc) ==
    IF i >= Len(translatedTexts) THEN acc
    ELSE LET originalText == At0(textsToTranslate, i)
             trans == translatedTexts[i + 1]
             key == MakeKey(Source, Target, originalText)
         IN  SetAll(translatedTexts, i + 1,
                 [mem |-> AddToMemory(acc.mem, key, trans),
                  writes |-> IF dbOpen THEN Append(acc.writes, PutTx(key, trans, now, i))
                             ELSE acc.writes,
                  tasks |-> IF dbOpen THEN acc.tasks ELSE Append(acc.tasks, SetTask(i, trans)),
                  calls |-> Append(acc.calls, [text |-> originalText, translation |-> trans])])

\* variant: only a short answer is a mismatch
MismatchOnlyShort(translatedTexts) == Len(translatedTexts) < Len(textsToTranslate)

\* translatedTexts.length !== textsToTranslate.length
Mismatch(translatedTexts) == Len(translatedTexts) # Len(textsToTranslate)

\* callAI resolves with translatedTexts
ProviderReturns(translatedTexts) ==
    /\ pc = "calling"
    /\ mode = "sync"
    /\ providerReturns' = Append(providerReturns, translatedTexts)
    /\ IF Mismatch(translatedTexts)
       THEN /\ responses' = Append(responses, FailureResponse("RESPONSE_MISMATCH"))
            /\ pc' = "done"
            /\ UNCHANGED <<memoryCache, dbWrites, microtasks, setCalls>>
       ELSE LET all == SetAll(translatedTexts, 0,
                              [mem |-> memoryCache, writes |-> dbWrites, tasks |-> <<>>,
                               calls |-> setCalls])
            IN  /\ memoryCache' = all.mem
                /\ dbWrites' = all.writes
                /\ microtasks' = all.tasks
                /\ setCalls' = all.calls
                /\ pc' = "merging"
                /\ UNCHANGED responses
    /\ UNCHANGED <<unitVars, now, cacheBefore, db, dbOpen, dbReads, mode, texts, results, missingIndices,
                   textsToTranslate, merged, parser, streamedIndex, chunkOffset, chunkLimit,
                   port, got, providerCalls, fedText, fragments, completions, thrown>>

\* callAI rejects with a TranslationError
ProviderThrows(code) ==
    /\ pc = "calling"
    /\ mode = "sync"
    /\ thrown' = code
    /\ responses' = Append(responses, FailureResponse(code))
    /\ pc' = "done"
    /\ UNCHANGED <<unitVars, cacheVars, microtasks, mode, texts, results, missingIndices,
                   textsToTranslate, merged, parser, streamedIndex, chunkOffset, chunkLimit,
                   port, got, providerCalls, providerReturns, setCalls, fedText,
                   fragments, completions>>

\* callAI rejects with an error that is no TranslationError (resp.json()
\* rejects): the response carries no errorCode
ProviderThrowsOther ==
    /\ pc = "calling"
    /\ mode = "sync"
    /\ thrown' = OtherError
    /\ responses' = Append(responses, FailureResponse(NoCode))
    /\ pc' = "done"
    /\ UNCHANGED <<unitVars, cacheVars, microtasks, mode, texts, results, missingIndices,
                   textsToTranslate, merged, parser, streamedIndex, chunkOffset, chunkLimit,
                   port, got, providerCalls, providerReturns, setCalls, fedText, fragments,
                   completions>>

\* variant: the merge writes the i-th translation at index i
MergeIndexByPosition(i) == i

\* const originalIndex = missingIndices[i] of the merge
MergeIndex(i) == AtIndex0(missingIndices, i)

\* the callback of translatedTexts.map resumes after `await translationCache.set`
SetResumes ==
    /\ pc = "merging"
    /\ microtasks # <<>>
    /\ Head(microtasks).kind = "set"
    /\ LET i == Head(microtasks).index
           originalIndex == MergeIndex(i)
       IN  results' = [results EXCEPT ![originalIndex] = Head(microtasks).value]
    /\ merged' = merged + 1
    /\ microtasks' = Tail(microtasks)
    /\ UNCHANGED <<unitVars, cacheVars, mode, pc, texts, missingIndices, textsToTranslate, parser,
                   streamedIndex, chunkOffset, chunkLimit, outputVars, historyVars>>

\* Promise.all of the set() calls has resolved: the merged result is returned
MergeDone ==
    /\ pc = "merging"
    /\ microtasks = <<>>
    /\ merged = Len(textsToTranslate)
    /\ responses' = Append(responses, SuccessResponse(ResultArray(results, Len(texts))))
    /\ pc' = "done"
    /\ UNCHANGED <<unitVars, cacheVars, microtasks, mode, texts, results, missingIndices,
                   textsToTranslate, merged, parser, streamedIndex, chunkOffset, chunkLimit,
                   port, historyVars>>

----------------------------------------------------------------------------
(* processBatchStream: the parser callbacks and the provider stream        *)

\* what the callbacks of one session read and write
Session ==
    [results |-> results, port |-> port, mem |-> memoryCache, writes |-> dbWrites,
     calls |-> setCalls, streamedIndex |-> streamedIndex, completions |-> completions]

\* variant: onElement uses the parser's index as the index in texts
OnElementCallbackByParserIndex(ss, translation, parserIndex) ==
    LET originalIndex == IF parserIndex < Len(texts) THEN parserIndex ELSE UndefinedIndex
        originalText == At0(textsToTranslate, parserIndex)
        key == MakeKey(Source, Target, originalText)
    IN  [results |-> [ss.results EXCEPT ![originalIndex] = translation],
         port |-> Append(ss.port, ElementMsg(originalIndex, translation)),
         mem |-> AddToMemory(ss.mem, key, translation),
         writes |-> IF dbOpen THEN Append(ss.writes, PutTx(key, translation, now, Detached))
                    ELSE ss.writes,
         calls |-> Append(ss.calls, [text |-> originalText, translation |-> translation]),
         streamedIndex |-> ss.streamedIndex + 1,
         completions |-> ss.completions]

\* variant: onElement awaits translationCache.set
OnElementCallbackAwaitingSet(ss, translation, parserIndex) ==
    LET originalIndex == AtIndex0(missingIndices, parserIndex)
        originalText == At0(textsToTranslate, parserIndex)
        key == MakeKey(Source, Target, originalText)
    IN  [results |-> [ss.results EXCEPT ![originalIndex] = translation],
         port |-> Append(ss.port, ElementMsg(originalIndex, translation)),
         mem |-> AddToMemory(ss.mem, key, translation),
         writes |-> IF dbOpen THEN Append(ss.writes, PutTx(key, translation, now, parserIndex))
                    ELSE ss.writes,
         calls |-> Append(ss.calls, [text |-> originalText, translation |-> translation]),
         streamedIndex |-> ss.streamedIndex + 1,
         completions |-> ss.completions]

\* onElement(translation, parserIndex)
OnElementCallback(ss, translation, parserIndex) ==
    LET originalIndex == AtIndex0(missingIndices, parserIndex)
        originalText == At0(textsToTranslate, parserIndex)
        key == MakeKey(Source, Target, originalText)
    IN  [results |-> [ss.results EXCEPT ![originalIndex] = translation],
         port |-> Append(ss.port, ElementMsg(originalIndex, translation)),
         mem |-> AddToMemory(ss.mem, key, translation),
         writes |-> IF dbOpen THEN Append(ss.writes, PutTx(key, translation, now, Detached))
                    ELSE ss.writes,
         calls |-> Append(ss.calls, [text |-> originalText, translation |-> translation]),
         streamedIndex |-> ss.streamedIndex + 1,
         completions |-> ss.completions]

\* variant: onComplete posts 'complete' whatever the number of elements
OnCompleteCallbackUnchecked(ss, elements) ==
    [ss EXCEPT !.port = Append(@, CompleteMsg(ResultArray(ss.results, Len(texts)))),
               !.completions = Append(@, Len(elements))]

\* onComplete(elements)
OnCompleteCallback(ss, elements) ==
    IF Len(elements) # Len(textsToTranslate)
    THEN [ss EXCEPT !.port = Append(@, ErrorMsg("RESPONSE_MISMATCH")),
                    !.completions = Append(@, Len(elements))]
    ELSE [ss EXCEPT !.port = Append(@, CompleteMsg(ResultArray(ss.results, Len(texts)))),
                    !.completions = Append(@, Len(elements))]

\* onError(error)
OnErrorCallback(ss) == [ss EXCEPT !.port = Append(@, ErrorMsg("JSON_PARSE_ERROR"))]

\* the callbacks of a parser step, run in the order the parser made them
RECURSIVE RunCallbacks(_, _)
RunCallbacks(ss, calls) ==
    IF calls = <<>> THEN ss
    ELSE LET c == Head(calls)
             after == IF c.cb = "onElement" THEN OnElementCallback(ss, c.element, c.index)
                      ELSE IF c.cb = "onComplete" THEN OnCompleteCallback(ss, c.elements)
                      ELSE OnErrorCallback(ss)
         IN  RunCallbacks(after, Tail(calls))

\* the session after a parser step
SessionAfter(step) ==
    LET ss == RunCallbacks(Session, step.calls)
    IN  /\ parser' = step.state
        /\ results' = ss.results
        /\ port' = ss.port
        /\ memoryCache' = ss.mem
        /\ dbWrites' = ss.writes
        /\ setCalls' = ss.calls
        /\ streamedIndex' = ss.streamedIndex
        /\ completions' = ss.completions

\* fetchOpenAIStream splits an input of more than 20 texts into chunks and
\* streams them one after the other; every other stream is one provider call
ChunkLoopLength(provider, n) ==
    IF provider = "openai" /\ n > OPENAI_MAX_ITEMS_PER_BATCH THEN n ELSE 0

\* variant: processBatchStream goes on to the provider with no text to send
CallAIStreamStartAlways(settings) ==
    LET call == CallAIStream(settings.selectedModel, settings.geminiApiKey,
                             settings.grokApiKey, settings.openaiApiKey)
    IN  /\ LookupsDone
        /\ mode = "stream"
        /\ providerCalls' = Append(providerCalls, textsToTranslate)
        /\ parser' = InitialParserState
        /\ streamedIndex' = 0
        /\ chunkOffset' = 0
        /\ IF call.error # NoCode
           THEN /\ thrown' = call.error
                /\ port' = Append(port, ErrorMsg(call.error))
                /\ pc' = "done"
                /\ UNCHANGED chunkLimit
           ELSE /\ chunkLimit' = ChunkLoopLength(call.provider, Len(textsToTranslate))
                /\ pc' = "connecting"
                /\ UNCHANGED <<thrown, port>>
        /\ UNCHANGED <<unitVars, cacheVars, microtasks, mode, texts, results, missingIndices,
                       textsToTranslate, merged, responses, got, providerReturns, setCalls,
                       fedText, fragments, completions>>

\* callAIStream(textsToTranslate, ..., chunk => parser.feed(chunk)) with the
\* settings read from storage
CallAIStreamStart(settings) ==
    LET call == CallAIStream(settings.selectedModel, settings.geminiApiKey,
                             settings.grokApiKey, settings.openaiApiKey)
    IN  /\ LookupsDone
        /\ mode = "stream"
        /\ Len(textsToTranslate) > 0
        /\ providerCalls' = Append(providerCalls, textsToTranslate)
        /\ parser' = InitialParserState
        /\ streamedIndex' = 0
        /\ chunkOffset' = 0
        /\ IF call.error # NoCode
           THEN /\ thrown' = call.error
                /\ port' = Append(port, ErrorMsg(call.error))
                /\ pc' = "done"
                /\ UNCHANGED chunkLimit
           ELSE /\ chunkLimit' = ChunkLoopLength(call.provider, Len(textsToTranslate))
                /\ pc' = "connecting"
                /\ UNCHANGED <<thrown, port>>
        /\ UNCHANGED <<unitVars, cacheVars, microtasks, mode, texts, results, missingIndices,
                       textsToTranslate, merged, responses, got, providerReturns, setCalls,
                       fedText, fragments, completions>>

\* fetch resolves with a success status and a body: the read loop starts
StreamOpens ==
    /\ pc = "connecting"
    /\ pc' = "reading"
    /\ UNCHANGED <<unitVars, cacheVars, microtasks, mode, texts, results, missingIndices,
                   textsToTranslate, merged, parser, streamedIndex, chunkOffset, chunkLimit,
                   outputVars, got, providerCalls, providerReturns, setCalls, fedText,
                   fragments, completions, thrown>>

\* the provider call throws a TranslationError before its first read (no
\* connection, an error status, no body)
StreamCallThrows(code) ==
    /\ pc = "connecting"
    /\ thrown' = code
    /\ port' = Append(port, ErrorMsg(code))
    /\ pc' = "done"
    /\ UNCHANGED <<unitVars, cacheVars, microtasks, mode, texts, results, missingIndices,
                   textsToTranslate, merged, parser, streamedIndex, chunkOffset, chunkLimit,
                   responses, got, providerCalls, providerReturns, setCalls, fedText,
                   fragments, completions>>

\* the provider delivers a text fragment: onChunk(chunk), parser.feed(chunk)
ProviderFragment(chunk) ==
    /\ pc = "reading"
    /\ SessionAfter(Feed(parser, chunk))
    /\ fedText' = fedText \o chunk
    /\ fragments' = fragments + 1
    /\ UNCHANGED <<unitVars, now, cacheBefore, db, dbOpen, dbReads, microtasks, mode, pc, texts, missingIndices,
                   textsToTranslate, merged, chunkOffset, chunkLimit, responses, got,
                   providerCalls, providerReturns, thrown>>

\* reader.read() rejects: an error that is no TranslationError reaches the
\* catch of processBatchStream
StreamReadFails ==
    /\ pc = "reading"
    /\ thrown' = OtherError
    /\ port' = Append(port, ErrorMsg(NoCode))
    /\ pc' = "done"
    /\ UNCHANGED <<unitVars, cacheVars, microtasks, mode, texts, results, missingIndices,
                   textsToTranslate, merged, parser, streamedIndex, chunkOffset, chunkLimit,
                   responses, got, providerCalls, providerReturns, setCalls, fedText,
                   fragments, completions>>

\* fetchOpenAIStream has a further chunk to stream after the current one
MoreChunks == chunkOffset + OPENAI_MAX_ITEMS_PER_BATCH < chunkLimit

\* the read loop ends (done): the next chunk is requested, or callAIStream
\* resolves and parser.end() runs
StreamEnds ==
    /\ pc = "reading"
    /\ IF MoreChunks
       THEN /\ chunkOffset' = chunkOffset + OPENAI_MAX_ITEMS_PER_BATCH
            /\ pc' = "connecting"
            /\ UNCHANGED <<parser, results, port, memoryCache, dbWrites, setCalls,
                           streamedIndex, completions>>
       ELSE /\ SessionAfter(End(parser))
            /\ pc' = "done"
            /\ UNCHANGED chunkOffset
    /\ UNCHANGED <<unitVars, now, cacheBefore, db, dbOpen, dbReads, microtasks, mode, texts, missingIndices,
                   textsToTranslate, merged, chunkLimit, responses, got, providerCalls,
                   providerReturns, fedText, fragments, thrown>>

----------------------------------------------------------------------------
(* Specification: one request, in either mode, against any provider, the   *)
(* cold tier answering every read and write                                *)

Next ==
    \/ \E ts \in Requests : HandleMessage(ts)
    \/ \E ts \in Requests : HandleStreamingPort(ts)
    \/ \E ts \in Requests : HandleMessageStorageFails(ts)
    \/ \E ts \in Requests : HandleStreamingPortStorageFails(ts)
    \/ \E index \in dbReads : DbReadSuccess(index)
    \/ LookupResumes
    \/ AllCached
    \/ DbWriteDone
    \/ \E settings \in Settings : CallAIStart(settings)
    \/ \E r \in BatchResults(Len(textsToTranslate)) : ProviderReturns(r)
    \/ \E code \in GatewayCodes : ProviderThrows(code)
    \/ ProviderThrowsOther
    \/ SetResumes
    \/ MergeDone
    \/ \E settings \in Settings : CallAIStreamStart(settings)
    \/ StreamOpens
    \/ \E code \in StreamCallCodes : StreamCallThrows(code)
    \/ \E chunk \in Fragments : fragments < MaxFragments /\ ProviderFragment(chunk)
    \/ StreamReadFails
    \/ StreamEnds

Spec == Init /\ [][Next]_vars

\* the same with a cold tier whose reads and writes may fail
NextFaulty ==
    \/ Next
    \/ \E index \in dbReads : DbReadError(index)
    \/ DbWriteError

SpecFaulty == Init /\ [][NextFaulty]_vars

\* a streaming request against a cold tier whose writes may fail
NextStreamFaulty ==
    \/ \E ts \in Requests : HandleStreamingPort(ts)
    \/ \E index \in dbReads : DbReadSuccess(index)
    \/ LookupResumes
    \/ AllCached
    \/ DbWriteDone
    \/ DbWriteError
    \/ \E settings \in Settings : CallAIStreamStart(settings)
    \/ StreamOpens
    \/ \E code \in StreamCallCodes : StreamCallThrows(code)
    \/ \E chunk \in Fragments : fragments < MaxFragments /\ ProviderFragment(chunk)
    \/ StreamReadFails
    \/ StreamEnds

SpecStreamFaulty == Init /\ [][NextStreamFaulty]_vars

----------------------------------------------------------------------------
(* Specification: a streaming request of more texts than one OpenAI call   *)
(* takes, no text cached and no cold tier, every chunk answered by a       *)
(* well-formed array of as many strings as the chunk has texts             *)

ChunkedExtra == 1
MaxFragmentChars == 2

ChunkedRequest == [i \in 1..(OPENAI_MAX_ITEMS_PER_BATCH + ChunkedExtra) |-> <<"x">>]

ChunkedSettings ==
    {st \in Settings : st.selectedModel = <<"g", "p", "t", "-", "4">>
                       /\ st.openaiApiKey # <<>>
                       /\ st.geminiApiKey = <<>> /\ st.grokApiKey = <<>>}

\* the JSON text of an array of n strings "a"
RECURSIVE ArrayTail(_)
ArrayTail(n) ==
    IF n = 0 THEN <<"]">> ELSE <<",", "\"", "a", "\"">> \o ArrayTail(n - 1)

ArrayText(n) ==
    IF n = 0 THEN <<"[", "]">> ELSE <<"[", "\"", "a", "\"">> \o ArrayTail(n - 1)

\* inputArray.slice(i, i + OPENAI_MAX_ITEMS_PER_BATCH).length
ChunkLength(offset, n) ==
    IF n - offset < OPENAI_MAX_ITEMS_PER_BATCH THEN n - offset
    ELSE OPENAI_MAX_ITEMS_PER_BATCH

\* the text of the well-formed answers to the chunks up to the one at offset
RECURSIVE AnswersUpTo(_, _)
AnswersUpTo(offset, n) ==
    (IF offset = 0 THEN <<>> ELSE AnswersUpTo(offset - OPENAI_MAX_ITEMS_PER_BATCH, n))
        \o ArrayText(ChunkLength(offset, n))

\* the next k characters of the answer to the current chunk
NextPiece(k) ==
    SubSeq(AnswersUpTo(chunkOffset, Len(textsToTranslate)), Len(fedText) + 1,
           Len(fedText) + k)

AnswerDelivered == fedText = AnswersUpTo(chunkOffset, Len(textsToTranslate))

InitChunked == Init /\ memoryCache = <<>> /\ ~dbOpen

NextChunked ==
    \/ HandleStreamingPort(ChunkedRequest)
    \/ LookupResumes
    \/ \E settings \in ChunkedSettings : CallAIStreamStart(settings)
    \/ StreamOpens
    \/ \E k \in 1..MaxFragmentChars :
          /\ Len(fedText) + k <= Len(AnswersUpTo(chunkOffset, Len(textsToTranslate)))
          /\ ProviderFragment(NextPiece(k))
    \/ AnswerDelivered /\ StreamEnds

SpecChunked == InitChunked /\ [][NextChunked]_vars

----------------------------------------------------------------------------
(* The parser on its own, as streamParser.test.ts drives it: a parser is   *)
(* created, a text is fed to it in fragments, then end() is called         *)

MaxElements == 2
MaxGarbage == 4

\* array elements as a provider may write them: the JSON text, the kind of
\* value it denotes and, for a string, the string (Undefined otherwise)
ElementSamples ==
    { [text |-> <<"\"", "a", "\"">>, kind |-> "string", value |-> <<"a">>],
      [text |-> <<"\"", "\\", "\"", ",", "]", "\"">>, kind |-> "string",
       value |-> <<"\"", ",", "]">>],
      [text |-> <<"n", "u", "l", "l">>, kind |-> "scalar", value |-> Undefined],
      [text |-> <<"1", "2">>, kind |-> "scalar", value |-> Undefined],
      [text |-> <<"t", "r", "u", "e">>, kind |-> "scalar", value |-> Undefined],
      [text |-> <<"[", "1", ",", "2", "]">>, kind |-> "array", value |-> Undefined],
      [text |-> <<"{", "\"", "k", "\"", ":", "1", ",", "\"", "m", "\"", ":", "2", "}">>,
       kind |-> "object", value |-> Undefined] }

\* JSON.stringify-like text of the elements, separated by ", "
RECURSIVE JoinElements(_)
JoinElements(es) ==
    IF es = <<>> THEN <<>>
    ELSE IF Len(es) = 1 THEN es[1].text
    ELSE es[1].text \o <<",", " ">> \o JoinElements(Tail(es))

\* the JSON arrays of at most MaxElements sample elements
ArrayInputs ==
    { [text |-> <<"[">> \o JoinElements(es) \o <<"]">>, isArray |-> TRUE, elements |-> es] :
        es \in SeqsUpTo(ElementSamples, MaxElements) }

\* the text is a JSON array
IsJsonArray(t) ==
    /\ SkipWs(t, 1) <= Len(t)
    /\ t[SkipWs(t, 1)] = "["
    /\ JsonParse(t).ok

\* the characters of the short texts, and the short texts that are no JSON array
GarbageChars == {"[", "]", ",", "\"", "a", " ", "\\"}
GarbageInputs ==
    { [text |-> t, isArray |-> FALSE, elements |-> <<>>] :
        t \in {g \in SeqsUpTo(GarbageChars, MaxGarbage) : ~IsJsonArray(g)} }

ParserInputs == ArrayInputs \cup GarbageInputs

\* createArrayStreamParser(callbacks) of a test, with the text it will feed
InitParser ==
    /\ now = TTL_MS
    /\ memoryCache = <<>>
    /\ dbOpen = FALSE
    /\ db = {}
    /\ cacheBefore = {}
    /\ RequestIdle
    /\ input \in ParserInputs
    /\ parserCalls = <<>>
    /\ parserEnded = FALSE
    /\ splitInString = FALSE
    /\ CacheUnitIdle
    /\ ProviderUnitIdle

\* the parser after feed(chunk) made the step `fed`
ParserFed(chunk, fed) ==
    /\ parser' = fed.state
    /\ parserCalls' = parserCalls \o fed.calls
    /\ fedText' = fedText \o chunk
    /\ splitInString' = (splitInString \/ fed.state.inString)
    /\ UNCHANGED <<cacheVars, microtasks, mode, pc, texts, results, missingIndices,
                   textsToTranslate, merged, streamedIndex, chunkOffset, chunkLimit,
                   outputVars, got, providerCalls, providerReturns, setCalls,
                   fragments, completions, thrown, input, parserEnded, cacheUnitVars,
                   providerUnitVars>>

\* the next k characters of the text
NextChunk(k) == SubSeq(input.text, Len(fedText) + 1, Len(fedText) + k)

\* variant: a feed() call starts outside a string whatever came before
ParserFeedsForgetful(k) ==
    /\ ~parserEnded
    /\ k \in 1..(Len(input.text) - Len(fedText))
    /\ ParserFed(NextChunk(k), Feed([parser EXCEPT !.inString = FALSE], NextChunk(k)))

\* parser.feed(fragment) with the next k characters of the text
ParserFeeds(k) ==
    /\ ~parserEnded
    /\ k \in 1..(Len(input.text) - Len(fedText))
    /\ ParserFed(NextChunk(k), Feed(parser, NextChunk(k)))

\* the parser after end() made the step `e`
ParserEnded(e) ==
    /\ parser' = e.state
    /\ parserCalls' = parserCalls \o e.calls
    /\ parserEnded' = TRUE
    /\ UNCHANGED <<cacheVars, microtasks, mode, pc, texts, results, missingIndices,
                   textsToTranslate, merged, streamedIndex, chunkOffset, chunkLimit,
                   outputVars, historyVars, input, splitInString, cacheUnitVars,
                   providerUnitVars>>

\* parser.end() once the whole text has been fed
ParserEnds ==
    /\ ~parserEnded
    /\ fedText = input.text
    /\ ParserEnded(End(parser))

NextParser ==
    \/ \E k \in 1..Len(input.text) : ParserFeeds(k)
    \/ ParserEnds

SpecParser == InitParser /\ [][NextParser]_vars

----------------------------------------------------------------------------
(* The cache on its own: a client calls get, set and clear of one          *)
(* TranslationCache, without waiting for the calls it made before          *)

MaxOps == 3
MaxInFlight == 2

\* the (source, target, text) triples the client uses, and the translations
Triple(source, target, text) == [source |-> source, target |-> target, text |-> text]
Triples ==
    { Triple(<<"a">>, <<"b">>, <<"c", ":", "x">>),
      Triple(<<"a">>, <<"b">>, <<"c", ":", "X">>) }
\* with a target language that holds the separator of makeKey
SeparatorTriples == Triples \cup {Triple(<<"a">>, <<"b", ":", "c">>, <<"x">>)}
Translations == {<<"v">>, <<"w">>}
KeyOf(t) == MakeKey(t.source, t.target, t.text)

\* what an earlier run of the process left in the store
StartColds ==
    { {},
      {[key |-> KeyOf(Triple(<<"a">>, <<"b">>, <<"c", ":", "x">>)),
        translation |-> <<"o">>, createdAt |-> TTL_MS]} }

\* the hot tier of a process that has stored MEMORY_LIMIT other texts
RECURSIVE Decimal(_)
Decimal(n) ==
    IF n < 10 THEN <<<<"0", "1", "2", "3", "4", "5", "6", "7", "8", "9">>[n + 1]>>
    ELSE Decimal(n \div 10) \o Decimal(n % 10)
FullMemory ==
    [i \in 1..MEMORY_LIMIT |->
        [key |-> MakeKey(<<"a">>, <<"b">>, <<"f">> \o Decimal(i)), value |-> <<"t">>]]

\* a new TranslationCache whose store is being opened, or one that works
\* without a store and has filled its hot tier
InitCache ==
    /\ now = TTL_MS
    /\ \/ memoryCache = <<>> /\ dbReady = FALSE /\ db \in StartColds
       \/ memoryCache = FullMemory /\ dbReady = TRUE /\ db = {}
    /\ dbOpen = FALSE
    /\ cacheBefore = {}
    /\ RequestIdle
    /\ ParserUnitIdle
    /\ ProviderUnitIdle
    /\ cacheOps = <<>>
    /\ txQueue = <<>>
    /\ accessLog = <<>>

cacheUnitFrame == <<now, cacheBefore, dbReads, dbWrites, microtasks, requestVars,
                    outputVars, historyVars, parserUnitVars, providerUnitVars>>

\* a call of a cache method: where it is, what it resolved with (Undefined
\* while pending and for set and clear), whether an error handler of the
\* store resolved it, and which calls had resolved when it was made
CacheOp(kind, t, key, value, stage, result) ==
    [kind |-> kind, triple |-> t, key |-> key, value |-> value, stage |-> stage,
     result |-> result, failed |-> FALSE,
     before |-> {i \in DOMAIN cacheOps : cacheOps[i].stage = "done"}]

\* the calls that have not resolved
InFlight == {i \in DOMAIN cacheOps : cacheOps[i].stage # "done"}

\* the client may make one more call
MayCall == Len(cacheOps) < MaxOps /\ Cardinality(InFlight) < MaxInFlight

\* transactions of the cache methods besides PutTx and DeleteTx
GetTx(key, owner) ==
    [op |-> "get", key |-> key, translation |-> <<>>, createdAt |-> 0, owner |-> owner]
ClearTx(owner) ==
    [op |-> "clear", key |-> <<>>, translation |-> <<>>, createdAt |-> 0, owner |-> owner]
CleanTx(cutoff) ==
    [op |-> "clean", key |-> <<>>, translation |-> <<>>, createdAt |-> cutoff,
     owner |-> Detached]

\* the store after a readwrite transaction
ApplyStoreTx(store, tx) ==
    IF tx.op = "clear" THEN {}
    ELSE IF tx.op = "clean" THEN {e \in store : e.createdAt > tx.createdAt}
    ELSE ApplyTx(store, tx)

\* request.onsuccess of indexedDB.open: cleanExpired() and resolve()
DbOpens ==
    /\ ~dbReady
    /\ dbReady' = TRUE
    /\ dbOpen' = TRUE
    /\ txQueue' = Append(txQueue, CleanTx(now - TTL_MS))
    /\ UNCHANGED <<cacheUnitFrame, memoryCache, db, cacheOps, accessLog>>

\* request.onerror of indexedDB.open: the cache goes on without a store
DbOpenFails ==
    /\ ~dbReady
    /\ dbReady' = TRUE
    /\ UNCHANGED <<cacheUnitFrame, memoryCache, db, dbOpen, cacheOps, txQueue, accessLog>>

\* get(source, target, text) up to its return or to `await this.dbReady`
CacheGet(t) ==
    /\ MayCall
    /\ IF MemHas(memoryCache, KeyOf(t))
       THEN /\ memoryCache' = MemSet(MemDelete(memoryCache, KeyOf(t)), KeyOf(t),
                                     MemGet(memoryCache, KeyOf(t)))
            /\ cacheOps' = Append(cacheOps, CacheOp("get", t, KeyOf(t), Undefined, "done",
                                                    MemGet(memoryCache, KeyOf(t))))
            /\ accessLog' = Append(accessLog, KeyOf(t))
       ELSE /\ memoryCache' = memoryCache
            /\ accessLog' = accessLog
            /\ cacheOps' = Append(cacheOps, CacheOp("get", t, KeyOf(t), Undefined, "ready",
                                                    Undefined))
    /\ UNCHANGED <<cacheUnitFrame, db, dbOpen, dbReady, txQueue>>

\* set(source, target, text, translation) up to `await this.dbReady`
CacheSet(t, translation) ==
    /\ MayCall
    /\ memoryCache' = AddToMemory(memoryCache, KeyOf(t), translation)
    /\ cacheOps' = Append(cacheOps, CacheOp("set", t, KeyOf(t), translation, "ready",
                                            Undefined))
    /\ accessLog' = Append(accessLog, KeyOf(t))
    /\ UNCHANGED <<cacheUnitFrame, db, dbOpen, dbReady, txQueue>>

\* clear() up to `await this.dbReady`
CacheClear ==
    /\ MayCall
    /\ memoryCache' = <<>>
    /\ cacheOps' = Append(cacheOps, CacheOp("clear", Triple(<<>>, <<>>, <<>>), <<>>,
                                            Undefined, "ready", Undefined))
    /\ UNCHANGED <<cacheUnitFrame, db, dbOpen, dbReady, txQueue, accessLog>>

\* the calls waiting on dbReady resume in the order they were made
IsFirstReady(i) ==
    /\ i \in DOMAIN cacheOps
    /\ cacheOps[i].stage = "ready"
    /\ \A h \in 1..(i - 1) : cacheOps[h].stage # "ready"

\* the transaction a call opens on the store
TxOf(op, i) ==
    IF op.kind = "get" THEN GetTx(op.key, i)
    ELSE IF op.kind = "set" THEN PutTx(op.key, op.value, now, i)
    ELSE ClearTx(i)

\* get, set or clear after `await this.dbReady`: return without a store,
\* open the transaction otherwise
CacheOpResumes(i) ==
    /\ dbReady
    /\ IsFirstReady(i)
    /\ IF ~dbOpen
       THEN /\ cacheOps' = [cacheOps EXCEPT ![i].stage = "done",
                                            ![i].result = IF cacheOps[i].kind = "get"
                                                          THEN Null ELSE Undefined]
            /\ txQueue' = txQueue
       ELSE /\ cacheOps' = [cacheOps EXCEPT ![i].stage = "tx"]
            /\ txQueue' = Append(txQueue, TxOf(cacheOps[i], i))
    /\ UNCHANGED <<cacheUnitFrame, memoryCache, db, dbOpen, dbReady, accessLog>>

\* the queue without its j-th transaction
Without(queue, j) == SubSeq(queue, 1, j - 1) \o SubSeq(queue, j + 1, Len(queue))

\* variant: an entry of the store never expires
LiveForever(store, key) == DbHas(store, key)

\* the entry store.get(key) finds is there and has not expired
Live(store, key) == DbHas(store, key) /\ ~(now - DbGet(store, key).createdAt > TTL_MS)

\* variant: what the store holds is returned and not promoted
StoreGetSucceedsUnpromoted(j) ==
    /\ j \in DOMAIN txQueue
    /\ \A h \in 1..j : txQueue[h].op = "get"
    /\ memoryCache' = memoryCache
    /\ txQueue' = IF DbHas(db, txQueue[j].key) /\ ~Live(db, txQueue[j].key)
                  THEN Append(Without(txQueue, j), DeleteTx(txQueue[j].key))
                  ELSE Without(txQueue, j)
    /\ cacheOps' = [cacheOps EXCEPT
                       ![txQueue[j].owner].stage = "done",
                       ![txQueue[j].owner].result =
                           IF Live(db, txQueue[j].key)
                           THEN DbGet(db, txQueue[j].key).translation ELSE Null]
    /\ accessLog' = IF Live(db, txQueue[j].key) THEN Append(accessLog, txQueue[j].key)
                    ELSE accessLog
    /\ UNCHANGED <<cacheUnitFrame, db, dbOpen, dbReady>>

\* request.onsuccess of store.get(key) in get(): a readonly transaction runs
\* once every readwrite transaction created before it is complete
StoreGetSucceeds(j) ==
    /\ j \in DOMAIN txQueue
    /\ \A h \in 1..j : txQueue[h].op = "get"
    /\ memoryCache' = IF Live(db, txQueue[j].key)
                      THEN AddToMemory(memoryCache, txQueue[j].key,
                                       DbGet(db, txQueue[j].key).translation)
                      ELSE memoryCache
    /\ txQueue' = IF DbHas(db, txQueue[j].key) /\ ~Live(db, txQueue[j].key)
                  THEN Append(Without(txQueue, j), DeleteTx(txQueue[j].key))
                  ELSE Without(txQueue, j)
    /\ cacheOps' = [cacheOps EXCEPT
                       ![txQueue[j].owner].stage = "done",
                       ![txQueue[j].owner].result =
                           IF Live(db, txQueue[j].key)
                           THEN DbGet(db, txQueue[j].key).translation ELSE Null]
    /\ accessLog' = IF Live(db, txQueue[j].key) THEN Append(accessLog, txQueue[j].key)
                    ELSE accessLog
    /\ UNCHANGED <<cacheUnitFrame, db, dbOpen, dbReady>>

\* tx.oncomplete of the oldest transaction, a readwrite one: put, clear,
\* delete or the cursor of cleanExpired
TxCompletes ==
    /\ txQueue # <<>>
    /\ Head(txQueue).op # "get"
    /\ db' = ApplyStoreTx(db, Head(txQueue))
    /\ txQueue' = Tail(txQueue)
    /\ cacheOps' = IF Head(txQueue).owner = Detached THEN cacheOps
                   ELSE [cacheOps EXCEPT ![Head(txQueue).owner].stage = "done"]
    /\ UNCHANGED <<cacheUnitFrame, memoryCache, dbOpen, dbReady, accessLog>>

NextCache ==
    \/ DbOpens
    \/ DbOpenFails
    \/ \E t \in Triples : CacheGet(t)
    \/ \E t \in Triples, translation \in Translations : CacheSet(t, translation)
    \/ CacheClear
    \/ \E i \in DOMAIN cacheOps : CacheOpResumes(i)
    \/ \E j \in DOMAIN txQueue : StoreGetSucceeds(j)
    \/ TxCompletes

SpecCache == InitCache /\ [][NextCache]_vars

\* the client awaits each call before the next
NextSequential ==
    \/ DbOpens
    \/ DbOpenFails
    \/ \E t \in SeparatorTriples : InFlight = {} /\ CacheGet(t)
    \/ \E t \in SeparatorTriples, translation \in Translations :
           InFlight = {} /\ CacheSet(t, translation)
    \/ InFlight = {} /\ CacheClear
    \/ \E i \in DOMAIN cacheOps : CacheOpResumes(i)
    \/ \E j \in DOMAIN txQueue : StoreGetSucceeds(j)
    \/ TxCompletes

SpecSequential == InitCache /\ [][NextSequential]_vars

----------------------------------------------------------------------------
(* The cache with a full hot tier and its store open: every insertion of   *)
(* a new key evicts, and what was evicted is still in the store            *)

\* the store of a process that has stored the MEMORY_LIMIT texts of FullMemory
FullStore ==
    {[key |-> FullMemory[i].key, translation |-> FullMemory[i].value,
      createdAt |-> TTL_MS] : i \in 1..MEMORY_LIMIT}

\* the two oldest texts of the hot tier and a text the cache has not seen
EvictionTriples ==
    { Triple(<<"a">>, <<"b">>, <<"f", "1">>),
      Triple(<<"a">>, <<"b">>, <<"f", "2">>),
      Triple(<<"a">>, <<"b">>, <<"c", ":", "x">>) }

InitEviction ==
    /\ now = TTL_MS
    /\ memoryCache = FullMemory
    /\ dbReady = TRUE
    /\ dbOpen = TRUE
    /\ db = FullStore
    /\ cacheBefore = {}
    /\ RequestIdle
    /\ ParserUnitIdle
    /\ ProviderUnitIdle
    /\ cacheOps = <<>>
    /\ txQueue = <<>>
    /\ accessLog = <<>>

NextEviction ==
    \/ \E t \in EvictionTriples : CacheGet(t)
    \/ \E t \in EvictionTriples : CacheSet(t, <<"v">>)
    \/ CacheClear
    \/ \E i \in DOMAIN cacheOps : CacheOpResumes(i)
    \/ \E j \in DOMAIN txQueue : StoreGetSucceeds(j)
    \/ TxCompletes

SpecEviction == InitEviction /\ [][NextEviction]_vars

----------------------------------------------------------------------------
(* The cache with a store that fails: the open request, a read or a        *)
(* transaction ends in its error handler                                   *)

\* request.onerror of store.get(key) in get(): resolve(null)
StoreGetFails(j) ==
    /\ j \in DOMAIN txQueue
    /\ \A h \in 1..j : txQueue[h].op = "get"
    /\ txQueue' = Without(txQueue, j)
    /\ cacheOps' = [cacheOps EXCEPT ![txQueue[j].owner].stage = "done",
                                    ![txQueue[j].owner].result = Null,
                                    ![txQueue[j].owner].failed = TRUE]
    /\ UNCHANGED <<cacheUnitFrame, memoryCache, db, dbOpen, dbReady, accessLog>>

\* variant: the transaction has no error handler, nothing resolves
TxFailsUnanswered ==
    /\ txQueue # <<>>
    /\ Head(txQueue).op # "get"
    /\ txQueue' = Tail(txQueue)
    /\ UNCHANGED <<cacheUnitFrame, memoryCache, db, dbOpen, dbReady, accessLog, cacheOps>>

\* tx.onerror (cursorRequest.onerror in cleanExpired) of the oldest
\* transaction, a readwrite one: the store keeps what it held, resolve()
TxFails ==
    /\ txQueue # <<>>
    /\ Head(txQueue).op # "get"
    /\ txQueue' = Tail(txQueue)
    /\ cacheOps' = IF Head(txQueue).owner = Detached THEN cacheOps
                   ELSE [cacheOps EXCEPT ![Head(txQueue).owner].stage = "done",
                                         ![Head(txQueue).owner].failed = TRUE]
    /\ UNCHANGED <<cacheUnitFrame, memoryCache, db, dbOpen, dbReady, accessLog>>

\* the client awaits each call before the next
NextDegraded ==
    \/ DbOpens
    \/ DbOpenFails
    \/ \E t \in Triples : InFlight = {} /\ CacheGet(t)
    \/ \E t \in Triples, translation \in Translations :
           InFlight = {} /\ CacheSet(t, translation)
    \/ InFlight = {} /\ CacheClear
    \/ \E i \in DOMAIN cacheOps : CacheOpResumes(i)
    \/ \E j \in DOMAIN txQueue : StoreGetSucceeds(j)
    \/ \E j \in DOMAIN txQueue : StoreGetFails(j)
    \/ TxCompletes
    \/ TxFails

SpecDegraded == InitCache /\ [][NextDegraded]_vars

----------------------------------------------------------------------------
(* The cache while time passes: a new TranslationCache finds entries of    *)
(* earlier runs in its store, some older than TTL_MS, others about to be   *)

MaxTicks == 2

\* Date.now() when the TranslationCache is constructed
StartTime == TTL_MS + 1

\* an entry of an earlier run: older than TTL_MS (0), as old as TTL_MS (1)
\* or younger (2) at StartTime
AgedEntry(t, createdAt) ==
    [key |-> KeyOf(t), translation |-> <<"o">>, createdAt |-> createdAt]
AgedColds ==
    {d \in SUBSET {AgedEntry(t, c) : t \in Triples, c \in 0..2} :
        \A e1, e2 \in d : e1.key = e2.key => e1 = e2}

InitExpiry ==
    /\ now = StartTime
    /\ memoryCache = <<>>
    /\ dbReady = FALSE
    /\ dbOpen = FALSE
    /\ db \in AgedColds
    /\ cacheBefore = Contents(memoryCache, db)
    /\ RequestIdle
    /\ ParserUnitIdle
    /\ ProviderUnitIdle
    /\ cacheOps = <<>>
    /\ txQueue = <<>>
    /\ accessLog = <<>>

\* Date.now() grows between two steps of the program
TimePasses ==
    /\ now < StartTime + MaxTicks
    /\ now' = now + 1
    /\ UNCHANGED <<cacheBefore, memoryCache, db, dbOpen, dbReads, dbWrites, microtasks,
                   requestVars, outputVars, historyVars, unitVars>>

NextExpiry ==
    \/ DbOpens
    \/ DbOpenFails
    \/ \E t \in Triples : CacheGet(t)
    \/ \E t \in Triples : CacheSet(t, <<"v">>)
    \/ \E i \in DOMAIN cacheOps : CacheOpResumes(i)
    \/ \E j \in DOMAIN txQueue : StoreGetSucceeds(j)
    \/ TxCompletes
    \/ TimePasses

SpecExpiry == InitExpiry /\ [][NextExpiry]_vars

----------------------------------------------------------------------------
(* Properties of the streaming session: the events on the port             *)

IsTerminal(msg) == msg.type \in {"complete", "error"}
IsElement(msg) == msg.type = "element"
IsVerdict(msg) ==
    msg.type = "complete" \/ (msg.type = "error" /\ msg.errorCode = "RESPONSE_MISMATCH")

\* the indices whose lookup was answered, with a translation or with null
CachedIndices == {i \in DOMAIN got : got[i] # Null}
MissedIndices == {i \in DOMAIN got : got[i] = Null}
LookupsAnswered == DOMAIN got = 0..(Len(texts) - 1)

\* texts[index], undefined for the undefined index
TextAt(index) == IF index = UndefinedIndex THEN Undefined ELSE texts[index + 1]

\* the position of index i in missingIndices
MissPosition(i) == CHOOSE k \in DOMAIN missingIndices : missingIndices[k] = i

\* C1: in a streaming session the port carries at most one terminal event
\* ('complete' or 'error') and no event after it, whatever the provider sends
C1_OneTerminalEventLast ==
    mode = "stream" =>
        \A i \in DOMAIN port : IsTerminal(port[i]) => i = Len(port)

\* C2: a streaming session with at least one miss has posted a terminal event
\* once the provider stream has ended and end() has returned, or the provider
\* call has thrown; it is an 'error' when the number of parsed elements is
\* not the number of misses
C2_TerminalEventAfterStream ==
    (mode = "stream" /\ pc = "done" /\ Len(textsToTranslate) >= 1) =>
        /\ \E i \in DOMAIN port : IsTerminal(port[i])
        /\ Len(parser.elements) # Len(textsToTranslate) =>
               \E i \in DOMAIN port : port[i].type = "error"

\* C3: in the synchronous mode textsToTranslate[k] is texts[missingIndices[k]]
\* and, on success, translations[i] is the translation of texts[i]: the cached
\* one for a hit, the provider's answer at the text's position among the
\* misses otherwise, in whatever order the lookups completed
C3_SyncOrderPreserved ==
    mode = "sync" =>
        /\ Len(missingIndices) = Len(textsToTranslate)
        /\ \A k \in DOMAIN textsToTranslate :
               textsToTranslate[k] = texts[missingIndices[k] + 1]
        /\ \A r \in DOMAIN responses :
               responses[r].success =>
                   /\ Len(responses[r].translations) = Len(texts)
                   /\ \A i \in 0..(Len(texts) - 1) :
                          responses[r].translations[i + 1] =
                              IF got[i] # Null THEN StoredTranslation(texts[i + 1])
                              ELSE providerReturns[1][MissPosition(i)]

C3_Witness ==
    /\ mode = "sync"
    /\ missingIndices = <<1, 0>>
    /\ responses # <<>>
    /\ responses[1].success
    /\ responses[1].translations[1] # responses[1].translations[2]

\* C4: in the streaming mode the k-th element the parser emits is posted with
\* index missingIndices[k], written to results at that index and written to
\* the cache under texts[missingIndices[k]], in whatever order the lookups
\* completed
C4_StreamIndexMapping ==
    mode = "stream" =>
        LET elems == SelectSeq(port, IsElement)
        IN  /\ Len(elems) = Len(parser.elements)
            /\ Len(setCalls) = Len(elems)
            /\ \A k \in DOMAIN elems :
                   LET index == AtIndex0(missingIndices, k - 1)
                       key == MakeKey(Source, Target, TextAt(index))
                   IN  /\ elems[k].index = index
                       /\ elems[k].text = parser.elements[k]
                       /\ setCalls[k] = [text |-> TextAt(index),
                                         translation |-> parser.elements[k]]
                       /\ MemHas(memoryCache, key)
                       /\ index # UndefinedIndex => results[index] = parser.elements[k]
            /\ setCalls # <<>> =>
                   LET last == setCalls[Len(setCalls)]
                   IN  MemGet(memoryCache, MakeKey(Source, Target, last.text))
                           = last.translation

C4_Witness ==
    /\ mode = "stream"
    /\ missingIndices = <<1, 0>>
    /\ Len(SelectSeq(port, IsElement)) = 2
    /\ port[1].text # port[2].text

\* the strings of a JSON text that is an array of string literals; ok is
\* FALSE for any other text
NoStringArray == [ok |-> FALSE, values |-> <<>>]

\* j is the position where the next member has to start
RECURSIVE StringArrayRest(_, _, _)
StringArrayRest(s, j, acc) ==
    IF j > Len(s) \/ s[j] # "\"" THEN NoStringArray
    ELSE LET e == ScanString(s, j + 1)
             values == Append(acc, DecodeString(s, j + 1))
             n == SkipWs(s, e)
         IN  IF e = 0 \/ n > Len(s) THEN NoStringArray
             ELSE IF s[n] = "," THEN StringArrayRest(s, SkipWs(s, n + 1), values)
             ELSE IF s[n] = "]" /\ SkipWs(s, n + 1) = Len(s) + 1
             THEN [ok |-> TRUE, values |-> values]
             ELSE NoStringArray

StringArray(s) ==
    LET i == SkipWs(s, 1)
        j == SkipWs(s, i + 1)
    IN  IF i > Len(s) \/ s[i] # "[" THEN NoStringArray
        ELSE IF j <= Len(s) /\ s[j] = "]"
        THEN IF SkipWs(s, j + 1) = Len(s) + 1 THEN [ok |-> TRUE, values |-> <<>>]
             ELSE NoStringArray
        ELSE StringArrayRest(s, j, <<>>)

\* a streaming session that ran to its end, every lookup answered, the
\* provider (if called) having streamed an array of as many strings as there
\* are misses and ended normally
WellFormedSession ==
    /\ mode = "stream"
    /\ pc = "done"
    /\ thrown = NoCode
    /\ LookupsAnswered
    /\ \/ MissedIndices = {}
       \/ /\ StringArray(fedText).ok
          /\ Len(StringArray(fedText).values) = Cardinality(MissedIndices)

\* C5: with c texts cached and m not, the provider streaming a well-formed
\* array of m strings, the port carries c 'cached' events (one per cached
\* text), then m 'element' events (the k-th with index missingIndices[k] and
\* the k-th string), then one 'complete' of length c+m that holds at each
\* position the cached or streamed translation of its text
C5_StreamEventOrder ==
    WellFormedSession =>
        LET c == Cardinality(CachedIndices)
            m == Cardinality(MissedIndices)
            answer == StringArray(fedText).values
        IN  /\ Len(texts) = c + m
            /\ Len(port) = c + m + 1
            /\ \A i \in 1..c :
                   /\ port[i].type = "cached"
                   /\ port[i].index \in CachedIndices
                   /\ port[i].text = StoredTranslation(texts[port[i].index + 1])
            /\ \A i, j \in 1..c : i # j => port[i].index # port[j].index
            /\ \A k \in 1..m :
                   /\ port[c + k].type = "element"
                   /\ port[c + k].index = missingIndices[k]
                   /\ port[c + k].index \in MissedIndices
                   /\ port[c + k].text = answer[k]
            /\ port[c + m + 1].type = "complete"
            /\ port[c + m + 1].translations =
                   [i \in 1..(c + m) |->
                       IF (i - 1) \in CachedIndices THEN StoredTranslation(texts[i])
                       ELSE answer[MissPosition(i - 1)]]

C5_Witness ==
    /\ WellFormedSession
    /\ Cardinality(CachedIndices) = 1
    /\ Cardinality(MissedIndices) = 1
    /\ port[Len(port)].type = "complete"

\* the number of 'element' events posted before position i of the port
ElementsBefore(i) == Cardinality({j \in 1..(i - 1) : port[j].type = "element"})

\* C6: a 'complete' event is posted only when as many elements were parsed as
\* there are misses, its translations have the length of the request and no
\* null position; each completion the parser reports with another count
\* posts an 'error' with code RESPONSE_MISMATCH instead
C6_CompleteOnlyOnFullCount ==
    mode = "stream" =>
        /\ \A i \in DOMAIN port :
               port[i].type = "complete" =>
                   /\ ElementsBefore(i) = Len(textsToTranslate)
                   /\ Len(port[i].translations) = Len(texts)
                   /\ \A j \in DOMAIN port[i].translations :
                          port[i].translations[j] \notin {Null, Undefined}
        /\ Len(textsToTranslate) > 0 =>
               LET verdicts == SelectSeq(port, IsVerdict)
               IN  /\ Len(verdicts) = Len(completions)
                   /\ \A k \in DOMAIN verdicts :
                          (verdicts[k].type = "complete")
                              <=> (completions[k] = Len(textsToTranslate))

C6_Witness ==
    /\ mode = "stream"
    /\ Len(textsToTranslate) = 2
    /\ \E i, j \in DOMAIN port :
          /\ port[i].type = "complete"
          /\ port[j].type = "error" /\ port[j].errorCode = "RESPONSE_MISMATCH"

\* C7: a streaming request with more than 20 misses routed to the chunked
\* provider, every chunk answered by a well-formed array of as many strings
\* as the chunk has texts, posts no 'error' and ends with one 'element' event
\* per miss followed by one 'complete' carrying every translation
C7_ChunkedStreamCompletes ==
    mode = "stream" =>
        /\ \A i \in DOMAIN port : port[i].type # "error"
        /\ pc = "done" =>
               LET m == Len(textsToTranslate)
               IN  /\ Len(port) = m + 1
                   /\ \A k \in 1..m :
                          /\ port[k].type = "element"
                          /\ port[k].index = missingIndices[k]
                          /\ port[k].text = <<"a">>
                   /\ port[m + 1].type = "complete"
                   /\ port[m + 1].translations = [i \in 1..Len(texts) |-> <<"a">>]

----------------------------------------------------------------------------
(* Properties of the synchronous mode                                      *)

\* C8: the provider is called at most once, only after every lookup has
\* completed, with exactly the texts that missed; when every text is a hit
\* it is not called and the response is success with the cached translations
C8_ProviderCalledOnceWithMisses ==
    mode = "sync" =>
        /\ Len(providerCalls) <= 1
        /\ providerCalls # <<>> =>
               /\ LookupsAnswered
               /\ dbReads = {}
               /\ pc \notin {"idle", "lookup"}
               /\ MissedIndices # {}
               /\ Len(providerCalls[1]) = Cardinality(MissedIndices)
               /\ {missingIndices[k] : k \in DOMAIN missingIndices} = MissedIndices
               /\ providerCalls[1] =
                      [k \in DOMAIN missingIndices |-> texts[missingIndices[k] + 1]]
        /\ (LookupsAnswered /\ MissedIndices = {}) =>
               /\ providerCalls = <<>>
               /\ pc = "done" =>
                      responses = <<[success |-> TRUE, hasTranslations |-> TRUE,
                                     translations |->
                                         [i \in 1..Len(texts) |->
                                             StoredTranslation(texts[i])],
                                     errorCode |-> NoCode]>>

C8_Witness ==
    /\ mode = "sync"
    /\ pc = "done"
    /\ Len(texts) = 2
    /\ CachedIndices # {}
    /\ providerCalls = << <<texts[2]>> >>
    /\ responses # <<>>
    /\ responses[1].success

\* C9: when the provider returns fewer or more elements than texts were
\* sent, the request fails with RESPONSE_MISMATCH, translationCache.set is
\* not called for any text, no write to the cold tier is pending and the two
\* tiers hold the translations they held before the request
C9_MismatchLeavesCacheAlone ==
    (/\ mode = "sync"
     /\ providerReturns # <<>>
     /\ Len(providerReturns[1]) # Len(textsToTranslate)) =>
        /\ responses = <<[success |-> FALSE, hasTranslations |-> FALSE,
                          translations |-> <<>>, errorCode |-> "RESPONSE_MISMATCH"]>>
        /\ setCalls = <<>>
        /\ dbWrites = <<>>
        /\ Contents(memoryCache, db) = cacheBefore

C9_Witness ==
    /\ mode = "sync"
    /\ providerReturns # <<>>
    /\ Len(textsToTranslate) = 1
    /\ Len(providerReturns[1]) = 2
    /\ pc = "done"
    /\ memoryCache # <<>>

----------------------------------------------------------------------------
(* Properties of both modes                                                *)

\* C10: a TranslationError with code K raised by the provider gateway during
\* a request reaches the caller with the same code: in the synchronous mode
\* as the one response, with success false, errorCode K and no translations
\* field; in the streaming mode as an 'error' event with errorCode K
C10_ErrorCodeReachesCaller ==
    thrown \notin {NoCode, OtherError} =>
        IF mode = "sync"
        THEN responses = <<[success |-> FALSE, hasTranslations |-> FALSE,
                            translations |-> <<>>, errorCode |-> thrown]>>
        ELSE /\ port # <<>>
             /\ port[Len(port)].type = "error"
             /\ port[Len(port)].errorCode = thrown

C10_Witness ==
    /\ mode = "sync"
    /\ thrown = "RATE_LIMITED"
    /\ CachedIndices # {}
    /\ responses # <<>>

----------------------------------------------------------------------------
(* A streaming request answered by the cache alone                         *)

\* C11: when every text of a streaming request is a cache hit the port
\* carries one 'cached' event per text and then a single 'complete', no
\* provider call is made and no parser sees any text
C11_AllCachedStream ==
    (mode = "stream" /\ LookupsAnswered /\ MissedIndices = {}) =>
        /\ providerCalls = <<>>
        /\ parser = InitialParserState
        /\ fedText = <<>>
        /\ completions = <<>>
        /\ pc \in {"lookup", "done"}
        /\ \A i \in 1..Len(texts) :
               /\ port[i].type = "cached"
               /\ port[i].text = StoredTranslation(texts[port[i].index + 1])
        /\ {port[i].index : i \in 1..Len(texts)} = 0..(Len(texts) - 1)
        /\ Len(port) = IF pc = "done" THEN Len(texts) + 1 ELSE Len(texts)
        /\ pc = "done" =>
               /\ port[Len(port)].type = "complete"
               /\ port[Len(port)].translations =
                      [i \in 1..Len(texts) |-> StoredTranslation(texts[i])]

C11_Witness ==
    /\ mode = "stream"
    /\ pc = "done"
    /\ LookupsAnswered
    /\ MissedIndices = {}
    /\ Len(texts) = 2
    /\ port[1].index = 1

----------------------------------------------------------------------------
(* Properties of the parser on its own                                     *)

\* the whole text passed to a single feed call of a new parser
SingleFeed(text) == Feed(InitialParserState, text)

\* the callbacks of one kind among the calls, in order
CallsOf(calls, cb) == SelectSeq(calls, LAMBDA c : c.cb = cb)

\* C12: however the text is split into the fragments of successive feed
\* calls, the callbacks made so far (onElement with value and index,
\* onComplete with its list) and the parser state are those of one feed call
\* with the text fed so far, and end() then acts as after that one call
C12_FragmentIndependence ==
    /\ ~parserEnded => Step(parser, parserCalls) = SingleFeed(fedText)
    /\ parserEnded =>
           Step(parser, parserCalls) =
               After(SingleFeed(fedText).calls, End(SingleFeed(fedText).state))

C12_Witness ==
    /\ parserEnded /\ splitInString /\ input.isArray
    /\ Len(CallsOf(parserCalls, "onElement")) = 2
    /\ CallsOf(parserCalls, "onElement")[2].element = <<"\"", ",", "]">>
    /\ Len(CallsOf(parserCalls, "onComplete")) = 1

\* what the contract has the parser emit for an array element: the string it
\* denotes, the empty string for anything else
EmittedFor(e) == IF e.kind = "string" THEN e.value ELSE <<>>

\* the whole array has been fed
ArrayFed == input.isArray /\ fedText = input.text

\* C13: once an array has been fed, onElement has been called exactly once
\* per position of the array, in order, the call for position p carrying
\* index p and the element's string, or the empty string when the element is
\* no string
C13_OneStringPerPosition ==
    ArrayFed =>
        CallsOf(parserCalls, "onElement") =
            [p \in 1..Len(input.elements) |->
                OnElement(EmittedFor(input.elements[p]), p - 1)]

\* the array holds only strings and non-string scalars (null, numbers, booleans)
ScalarsOnly == \A p \in DOMAIN input.elements : input.elements[p].kind \in {"string", "scalar"}

\* C14: once an array of strings and non-string scalars has been fed, the
\* onElement calls are, in array order and with indices 0, 1, 2, ..., the
\* decoded string of each string element and the empty string for each
\* null, number or boolean
C14_ScalarsEmittedEmpty ==
    (ArrayFed /\ ScalarsOnly) =>
        /\ Len(CallsOf(parserCalls, "onElement")) = Len(input.elements)
        /\ \A p \in DOMAIN input.elements :
               /\ CallsOf(parserCalls, "onElement")[p].index = p - 1
               /\ CallsOf(parserCalls, "onElement")[p].element =
                      IF input.elements[p].kind = "string"
                      THEN input.elements[p].value ELSE <<>>

\* [null, "a"] has been fed
C14_Witness ==
    /\ ArrayFed /\ ScalarsOnly
    /\ Len(input.elements) = 2
    /\ input.elements[1].text = <<"n", "u", "l", "l">>
    /\ input.elements[2].text = <<"\"", "a", "\"">>
    /\ CallsOf(parserCalls, "onElement") = <<OnElement(<<>>, 0), OnElement(<<"a">>, 1)>>

\* C15: when a text that is no JSON array has been fed and end() called, and
\* no element was emitted, onError has been called (the 'no elements' error)
\* and onComplete has not been called, neither by feed nor by end()
C15_NoElementsError ==
    (parserEnded /\ ~input.isArray /\ CallsOf(parserCalls, "onElement") = <<>>) =>
        /\ CallsOf(parserCalls, "onError") # <<>>
        /\ CallsOf(parserCalls, "onComplete") = <<>>

----------------------------------------------------------------------------
(* Properties of the cache on its own                                      *)

\* the calls made before the call g resolved (g itself among them)
MadeBefore(g) == {i \in DOMAIN cacheOps : g \notin cacheOps[i].before}

\* up to the moment the call g resolved the client made only get and set
\* calls, all of them with the key of g
OnlyGetSetOnKey(g) ==
    \A i \in MadeBefore(g) :
        cacheOps[i].kind \in {"get", "set"} /\ cacheOps[i].key = cacheOps[g].key

\* C16: among concurrent get and set calls with one key, a get made after a
\* set resolved, with no set made after that one, resolves with the
\* translation of that set
C16_LastSetWins ==
    \A g, w \in DOMAIN cacheOps :
        ( /\ cacheOps[g].kind = "get" /\ cacheOps[g].stage = "done"
          /\ cacheOps[w].kind = "set" /\ w \in cacheOps[g].before
          /\ OnlyGetSetOnKey(g)
          /\ \A i \in MadeBefore(g) : cacheOps[i].kind = "set" => i <= w )
        => cacheOps[g].result = cacheOps[w].value

\* C17: once a clear() has resolved, and no set was called after that clear()
\* was called, the hot tier is empty and every get called since resolves
\* with null, whatever calls were in flight while clear() ran
C17_ClearEmptiesBothTiers ==
    \A c \in DOMAIN cacheOps :
        ( /\ cacheOps[c].kind = "clear" /\ cacheOps[c].stage = "done"
          /\ \A i \in DOMAIN cacheOps : i > c => cacheOps[i].kind # "set" )
        => /\ memoryCache = <<>>
           /\ \A g \in DOMAIN cacheOps :
                  (cacheOps[g].kind = "get" /\ cacheOps[g].stage = "done"
                       /\ c \in cacheOps[g].before)
                  => cacheOps[g].result = Null

\* C18: when the client, awaiting each call, gets a triple, then only sets
\* other triples (differing in source, target or text, be it by case alone),
\* then gets the first triple again, the second get resolves with what the
\* first resolved with
C18_KeysIsolated ==
    \A g1, g2 \in DOMAIN cacheOps :
        ( /\ g1 < g2
          /\ cacheOps[g1].kind = "get" /\ cacheOps[g1].stage = "done"
          /\ cacheOps[g2].kind = "get" /\ cacheOps[g2].stage = "done"
          /\ cacheOps[g1].triple = cacheOps[g2].triple
          /\ \A i \in (g1 + 1)..(g2 - 1) :
                 cacheOps[i].kind = "set" /\ cacheOps[i].triple # cacheOps[g1].triple )
        => cacheOps[g2].result = cacheOps[g1].result

\* each tier holds at most one entry per key
OneEntryPerKey ==
    /\ Cardinality({memoryCache[i].key : i \in DOMAIN memoryCache}) = Len(memoryCache)
    /\ Cardinality({e.key : e \in db}) = Cardinality(db)

\* a get resolves with the translation of the latest set made before it with
\* its key, when no clear was made in between
GetAfterSet ==
    \A g, w \in DOMAIN cacheOps :
        ( /\ w < g
          /\ cacheOps[g].kind = "get" /\ cacheOps[g].stage = "done"
          /\ cacheOps[w].kind = "set" /\ cacheOps[w].key = cacheOps[g].key
          /\ \A i \in (w + 1)..(g - 1) :
                 /\ cacheOps[i].kind # "clear"
                 /\ ~(cacheOps[i].kind = "set" /\ cacheOps[i].key = cacheOps[g].key) )
        => cacheOps[g].result = cacheOps[w].value

\* the two latest calls are sets with the same key and translation
RepeatedSet(ops) ==
    /\ Len(ops) >= 2
    /\ ops[Len(ops)].kind = "set" /\ ops[Len(ops) - 1].kind = "set"
    /\ ops[Len(ops)].key = ops[Len(ops) - 1].key
    /\ ops[Len(ops)].value = ops[Len(ops) - 1].value

\* no step of the repeated set changes the number of entries of a tier
RepeatKeepsCounts ==
    RepeatedSet(cacheOps') =>
        /\ Len(memoryCache') = Len(memoryCache)
        /\ Cardinality(db') = Cardinality(db)

\* C19: when each call is awaited before the next, a get after a set
\* resolves with the translation of the most recent set for its key, each
\* tier holds at most one entry per key, and a set repeated with the same
\* key and translation changes no entry count
C19_SetOverwritesInPlace ==
    [][ /\ OneEntryPerKey /\ GetAfterSet
        /\ OneEntryPerKey' /\ GetAfterSet'
        /\ RepeatKeepsCounts ]_vars

\* set, set with another translation, get, with the store open; and the
\* entry of an earlier run overwritten
C19_Witness ==
    /\ dbOpen /\ Len(cacheOps) = 3
    /\ cacheOps[1].kind = "set" /\ cacheOps[2].kind = "set" /\ cacheOps[3].kind = "get"
    /\ cacheOps[1].key = cacheOps[2].key /\ cacheOps[2].key = cacheOps[3].key
    /\ cacheOps[1].value # cacheOps[2].value
    /\ cacheOps[3].stage = "done" /\ cacheOps[3].result = cacheOps[2].value
    /\ \E e \in db : e.key = cacheOps[3].key /\ e.translation = cacheOps[2].value

\* the step is a call of the cache method `kind`
CallStep(kind) ==
    /\ Len(cacheOps') = Len(cacheOps) + 1
    /\ cacheOps'[Len(cacheOps')].kind = kind

\* right after the call of set the hot tier holds the key with the translation
SetReachesHotTier ==
    CallStep("set") =>
        /\ MemHas(memoryCache', cacheOps'[Len(cacheOps')].key)
        /\ MemGet(memoryCache', cacheOps'[Len(cacheOps')].key) =
               cacheOps'[Len(cacheOps')].value

\* a get of a key the hot tier holds resolves in the call, with the hot
\* tier's translation, and opens no transaction on the store
HotGetSkipsStore ==
    (CallStep("get") /\ MemHas(memoryCache, cacheOps'[Len(cacheOps')].key)) =>
        /\ cacheOps'[Len(cacheOps')].stage = "done"
        /\ cacheOps'[Len(cacheOps')].result =
               MemGet(memoryCache, cacheOps'[Len(cacheOps')].key)
        /\ txQueue' = txQueue

\* C20: in every state reached by interleaved get, set and clear calls the
\* hot tier holds at most MEMORY_LIMIT entries; right after a set its key is
\* in the hot tier, and a get of a key in the hot tier is answered from it
\* without a read of the store
C20_HotTierBounded ==
    [][ /\ Len(memoryCache) <= MEMORY_LIMIT
        /\ Len(memoryCache') <= MEMORY_LIMIT
        /\ SetReachesHotTier
        /\ HotGetSkipsStore ]_vars

\* a set with a new key on a full hot tier: the oldest entry is gone, the
\* new one is the latest, and the next get of the key resolved at once
C20_Witness ==
    /\ Len(memoryCache) = MEMORY_LIMIT
    /\ Len(cacheOps) = 2
    /\ cacheOps[1].kind = "set" /\ cacheOps[2].kind = "get"
    /\ cacheOps[2].key = cacheOps[1].key
    /\ cacheOps[2].stage = "done" /\ cacheOps[2].result = cacheOps[1].value
    /\ memoryCache[MEMORY_LIMIT].key = cacheOps[1].key
    /\ memoryCache[1].key = MakeKey(<<"a">>, <<"b">>, <<"f", "2">>)

----------------------------------------------------------------------------
(* Properties of the cache with a full hot tier                            *)

\* the number a sequence of decimal digits writes
DigitValue ==
    [c \in Digits |-> CHOOSE d \in 0..9 : Decimal(d) = <<c>>]
RECURSIVE DecimalValue(_, _)
DecimalValue(ds, i) ==
    IF i = 0 THEN 0 ELSE 10 * DecimalValue(ds, i - 1) + DigitValue[ds[i]]

\* when the key was last used according to the log: after every text of
\* FullMemory when the log has it, else when FullMemory stored it
LastUse(log, key) ==
    IF \E i \in DOMAIN log : log[i] = key
    THEN MEMORY_LIMIT + (CHOOSE i \in DOMAIN log :
                            log[i] = key /\ \A j \in DOMAIN log : log[j] = key => j <= i)
    ELSE DecimalValue(SubSeq(key, 6, Len(key)), Len(key) - 5)

\* the step used the hot tier (a set, a get that hit, a promotion), with AccessedKey
Accessed == accessLog' # accessLog
AccessedKey == accessLog'[Len(accessLog')]

\* the keys the step removed from the hot tier
Evicted ==
    {memoryCache[i].key : i \in DOMAIN memoryCache}
        \ {memoryCache'[i].key : i \in DOMAIN memoryCache'}

\* the step inserts a key the full hot tier does not hold
BeyondCapacity ==
    Accessed /\ Len(memoryCache) = MEMORY_LIMIT /\ ~MemHas(memoryCache, AccessedKey)

\* then one entry goes, and none in the hot tier was used before it
EvictsLeastRecentlyUsed ==
    BeyondCapacity =>
        /\ Cardinality(Evicted) = 1
        /\ Len(memoryCache') = MEMORY_LIMIT
        /\ \A k \in Evicted : \A i \in DOMAIN memoryCache :
               LastUse(accessLog, k) <= LastUse(accessLog, memoryCache[i].key)

\* any other use of the hot tier removes nothing
OtherUseKeepsEntries == (Accessed /\ ~BeyondCapacity) => Evicted = {}

\* after its use the key is the one the hot tier would evict last
UsedKeyIsLatest == Accessed => memoryCache'[Len(memoryCache')].key = AccessedKey

\* C21: an insertion (by set or by promotion from the store) into the full
\* hot tier removes exactly one entry, the one whose latest use (set, get
\* that hit, promotion) is the oldest among the entries held; every use,
\* the get that hits included, makes its key the most recently used one
C21_LeastRecentlyUsedEvicted ==
    [][EvictsLeastRecentlyUsed /\ OtherUseKeepsEntries /\ UsedKeyIsLatest]_vars

\* a get hit the oldest entry, then a set of a new key evicted the second
\* oldest, then a get of that one promoted it from the store and evicted
\* the third
C21_Witness ==
    /\ Len(cacheOps) = 3
    /\ cacheOps[1].kind = "get" /\ cacheOps[1].key = FullMemory[1].key
    /\ cacheOps[2].kind = "set" /\ cacheOps[2].key = MakeKey(<<"a">>, <<"b">>, <<"c", ":", "x">>)
    /\ cacheOps[3].kind = "get" /\ cacheOps[3].key = FullMemory[2].key
    /\ cacheOps[3].stage = "done" /\ cacheOps[3].result = FullMemory[2].value
    /\ accessLog = <<FullMemory[1].key, cacheOps[2].key, FullMemory[2].key>>
    /\ memoryCache[1].key = FullMemory[4].key
    /\ memoryCache[MEMORY_LIMIT].key = FullMemory[2].key
    /\ MemHas(memoryCache, FullMemory[1].key)
    /\ ~MemHas(memoryCache, FullMemory[3].key)

\* the step is request.onsuccess of the store.get(key) of the get call g
ColdRead(g) ==
    /\ cacheOps[g].kind = "get"
    /\ cacheOps[g].stage = "tx"
    /\ cacheOps'[g].stage = "done"

NeverCleared == \A i \in DOMAIN cacheOps : cacheOps[i].kind # "clear"

\* the set calls made before the call g with its key: their writes are
\* complete when the store answers g
SetsBefore(g) ==
    {i \in 1..(g - 1) : cacheOps[i].kind = "set" /\ cacheOps[i].key = cacheOps[g].key}

\* the translation the store was last given for the key of g, if any
WrittenFor(g) ==
    IF SetsBefore(g) # {}
    THEN cacheOps[CHOOSE i \in SetsBefore(g) : \A h \in SetsBefore(g) : h <= i].value
    ELSE IF DbHas(FullStore, cacheOps[g].key) THEN DbGet(FullStore, cacheOps[g].key).translation
    ELSE Undefined

\* a get the hot tier could not answer resolves with the translation that
\* was written for its key, which becomes the latest entry of the hot tier
EvictedKeyStillServed ==
    \A g \in DOMAIN cacheOps :
        (ColdRead(g) /\ NeverCleared /\ WrittenFor(g) # Undefined) =>
            /\ cacheOps'[g].result = WrittenFor(g)
            /\ memoryCache'[Len(memoryCache')] =
                   [key |-> cacheOps[g].key, value |-> WrittenFor(g)]

\* a step that removes entries from the hot tier leaves the store and the
\* transactions waiting on it as they are, but for the read that ended
EvictionSparesStore ==
    Evicted # {} =>
        /\ db' = db
        /\ \A i \in DOMAIN txQueue' : \E h \in DOMAIN txQueue : txQueue'[i] = txQueue[h]

\* C22: a key evicted from the hot tier whose write to the store completed,
\* unexpired and not cleared, is still answered by get, from the store, and
\* is put back into the hot tier as the most recently used key; evicting
\* deletes nothing from the store
C22_EvictedKeyServedFromStore == [][EvictedKeyStillServed /\ EvictionSparesStore]_vars

\* a set of a new key evicted the oldest key; the get of that key was
\* answered from the store and evicted the next
C22_Witness ==
    /\ Len(cacheOps) = 2
    /\ cacheOps[1].kind = "set" /\ cacheOps[1].key = MakeKey(<<"a">>, <<"b">>, <<"c", ":", "x">>)
    /\ cacheOps[2].kind = "get" /\ cacheOps[2].key = FullMemory[1].key
    /\ cacheOps[2].stage = "done" /\ cacheOps[2].result = FullMemory[1].value
    /\ memoryCache[MEMORY_LIMIT].key = FullMemory[1].key
    /\ ~MemHas(memoryCache, FullMemory[2].key)
    /\ DbHas(db, FullMemory[1].key) /\ DbHas(db, FullMemory[2].key)
    /\ Cardinality(db) >= MEMORY_LIMIT

----------------------------------------------------------------------------
(* Properties of the cache while time passes                               *)

\* the entry of the store for the key is older than TTL_MS
OlderThanTtl(store, key) ==
    DbHas(store, key) /\ now - DbGet(store, key).createdAt > TTL_MS

\* a get that reads an entry older than TTL_MS resolves with null, leaves
\* the hot tier as it is and starts the deletion of the entry
ExpiredNeverServed ==
    \A g \in DOMAIN cacheOps :
        (ColdRead(g) /\ OlderThanTtl(db, cacheOps[g].key)) =>
            /\ cacheOps'[g].result = Null
            /\ memoryCache' = memoryCache
            /\ txQueue' # <<>>
            /\ txQueue'[Len(txQueue')] = DeleteTx(cacheOps[g].key)

\* the oldest transaction, of the kind op, completes in the step
Completes(op) ==
    /\ txQueue # <<>>
    /\ Head(txQueue).op = op
    /\ txQueue' = Tail(txQueue)
    /\ memoryCache' = memoryCache

\* the deletion removes the entry of the key
DeletionDeletes == Completes("delete") => ~DbHas(db', Head(txQueue).key)

\* after the sweep no entry is left that was older than TTL_MS when
\* cleanExpired() was called, and the entries made later than that are left
SweepDeletesExpired ==
    Completes("clean") =>
        /\ \A e \in db' : ~(Head(txQueue).createdAt - e.createdAt > 0)
        /\ \A e \in db : e.createdAt > Head(txQueue).createdAt => e \in db'

\* C23: a get that misses the hot tier and finds an entry older than TTL_MS
\* in the store resolves with null and does not promote it, and the entry
\* is deleted from the store; the sweep cleanExpired() started when the
\* store opens deletes every entry older than TTL_MS
C23_ExpiredNeverServed ==
    [][ExpiredNeverServed /\ DeletionDeletes /\ SweepDeletesExpired]_vars

\* the store held both keys at startup; the sweep deleted one entry, the
\* other grew older than TTL_MS afterwards, and the get that found it
\* resolved with null, promoted nothing and started its deletion
C23_Witness ==
    /\ dbOpen
    /\ Cardinality(cacheBefore) = 2
    /\ Len(cacheOps) = 1
    /\ cacheOps[1].kind = "get" /\ cacheOps[1].stage = "done" /\ cacheOps[1].result = Null
    /\ Cardinality(db) = 1
    /\ OlderThanTtl(db, cacheOps[1].key)
    /\ txQueue = <<DeleteTx(cacheOps[1].key)>>
    /\ memoryCache = <<>>

----------------------------------------------------------------------------
(* Properties of the cache with a store that fails                         *)

\* a call that waits for the store has a transaction there, whose success
\* or error handler will resolve it
NoCallStuck ==
    \A i \in DOMAIN cacheOps :
        cacheOps[i].stage = "tx" => \E j \in DOMAIN txQueue : txQueue[j].owner = i

\* a get that resolves without a store, or by the error handler of its
\* read, resolves with null and leaves the hot tier as it is
DegradedGetMisses ==
    \A g \in DOMAIN cacheOps :
        ( /\ cacheOps[g].kind = "get"
          /\ cacheOps[g].stage # "done" /\ cacheOps'[g].stage = "done"
          /\ (~dbOpen \/ cacheOps'[g].failed) )
        => cacheOps'[g].result = Null /\ memoryCache' = memoryCache

\* a get right after a set with its key resolves with the translation set
SetThenGet(ops) ==
    \A g \in 2..Len(ops) :
        ( /\ ops[g].kind = "get" /\ ops[g].stage = "done"
          /\ ops[g - 1].kind = "set" /\ ops[g - 1].key = ops[g].key )
        => ops[g].result = ops[g - 1].value

----------------------------------------------------------------------------
(* The provider functions on their own: fetchGemini, fetchGrok or          *)
(* fetchOpenAI is called with a prompt, and the server answers each        *)
(* request the function sends                                              *)

MaxBatchTexts == 45

Providers == {"gemini", "grok", "openai"}

\* JavaScript values a provider function returns: an array of strings, a
\* value that is no array of strings, or nothing
ArrayValue(values) == [type |-> "array", values |-> values]
OtherValue(isArray) == [type |-> IF isArray THEN "array" ELSE "other", values |-> <<>>]
NoValue == [type |-> "undefined", values |-> <<>>]

\* how a provider function ends
Returned(value) == [threw |-> NoCode, value |-> value]
Threw(code) == [threw |-> code, value |-> NoValue]
Pending == [threw |-> "pending", value |-> NoValue]

\* JSON.parse(text): whether it returns, and the value
ParseJson(text) ==
    IF ~JsonParse(text).ok THEN [ok |-> FALSE, value |-> NoValue]
    ELSE IF StringArray(text).ok
    THEN [ok |-> TRUE, value |-> ArrayValue(StringArray(text).values)]
    ELSE [ok |-> TRUE, value |-> OtherValue(text[SkipWs(text, 1)] = "[")]

\* JSON.stringify of an array of strings that hold no character it escapes
RECURSIVE JsonMembers(_, _)
JsonMembers(values, i) ==
    IF i > Len(values) THEN <<"]">>
    ELSE (IF i = 1 THEN <<>> ELSE <<",">>) \o <<"\"">> \o values[i] \o <<"\"">>
         \o JsonMembers(values, i + 1)
JsonStringify(values) == <<"[">> \o JsonMembers(values, 1)

\* safeJsonParse(text, fallback) of lib/errors.ts
SafeJsonParsed(parsed, fallback) ==
    IF parsed.ok THEN Returned(parsed.value)
    ELSE IF fallback # NoValue THEN Returned(fallback)
    ELSE Threw("JSON_PARSE_ERROR")
SafeJsonParse(text, fallback) == SafeJsonParsed(ParseJson(text), fallback)

\* the letters of "json" in lower case, for a pattern with the flag i
LowerCase(c) ==
    CASE c = "J" -> "j" [] c = "S" -> "s" [] c = "O" -> "o" [] c = "N" -> "n"
      [] OTHER -> c

\* the pattern of literal characters matches at position i
MatchAt(s, i, pat, ignoreCase) ==
    /\ i + Len(pat) - 1 <= Len(s)
    /\ \A k \in 1..Len(pat) :
           (IF ignoreCase THEN LowerCase(s[i + k - 1]) ELSE s[i + k - 1]) = pat[k]

\* the first position from i on where the pattern matches
FirstMatch(s, i, pat, ignoreCase) ==
    CHOOSE j \in i..Len(s) :
        /\ MatchAt(s, j, pat, ignoreCase)
        /\ \A h \in i..(j - 1) : ~MatchAt(s, h, pat, ignoreCase)

\* s.replace(/pat/g, '') from position i on; with trailingSpace the pattern
\* is /pat\s*/g
RECURSIVE RemoveAll(_, _, _, _, _)
RemoveMatch(s, i, j, pat, ignoreCase, trailingSpace) ==
    SubSeq(s, i, j - 1)
        \o RemoveAll(s, IF trailingSpace THEN SkipWs(s, j + Len(pat)) ELSE j + Len(pat),
                     pat, ignoreCase, trailingSpace)
RemoveAll(s, i, pat, ignoreCase, trailingSpace) ==
    IF \E j \in i..Len(s) : MatchAt(s, j, pat, ignoreCase)
    THEN RemoveMatch(s, i, FirstMatch(s, i, pat, ignoreCase), pat, ignoreCase, trailingSpace)
    ELSE SubSeq(s, i, Len(s))

\* the character U+0060, which a TLA+ string cannot hold
Backtick == "backtick"
Fence == <<Backtick, Backtick, Backtick>>
FenceJson == Fence \o <<"j", "s", "o", "n">>

\* cleaned.match(/\[[\s\S]*\]/): from the first "[" to the last "]"
ArrayMatch(cleaned) ==
    IF \E i, j \in DOMAIN cleaned : i < j /\ cleaned[i] = "[" /\ cleaned[j] = "]"
    THEN SubSeq(cleaned,
                CHOOSE i \in DOMAIN cleaned :
                    cleaned[i] = "[" /\ \A h \in 1..(i - 1) : cleaned[h] # "[",
                CHOOSE j \in DOMAIN cleaned :
                    cleaned[j] = "]" /\ \A h \in (j + 1)..Len(cleaned) : cleaned[h] # "]")
    ELSE cleaned

\* extractJsonArray(text) of providers/openai.ts
ExtractJsonArray(text) ==
    ArrayMatch(Trim(RemoveAll(RemoveAll(text, 1, FenceJson, TRUE, TRUE), 1, Fence, FALSE, TRUE)))

\* the body of a successful response as the provider functions read it:
\* the content (candidates[0].content.parts[0].text for Gemini,
\* choices[0].message.content for the others), Undefined when a link to it
\* is missing, and Gemini's candidates[0].finishReason
Payload(content, finishReason) == [content |-> content, finishReason |-> finishReason]
Stop == <<"S", "T", "O", "P">>
Safety == <<"S", "A", "F", "E", "T", "Y">>

\* fetchGemini after `await resp.json()`
FetchGemini(data) ==
    IF data.content \in {Undefined, Null}
    THEN IF data.finishReason \notin {Undefined, Null, <<>>, Stop}
         THEN Threw("API_ERROR")
         ELSE Threw("INVALID_RESPONSE")
    ELSE SafeJsonParse(data.content, ArrayValue(<<>>))

\* content.replace(/```json/g, '').replace(/```/g, '').trim() of fetchGrok
StripFences(content) ==
    Trim(RemoveAll(RemoveAll(content, 1, FenceJson, FALSE, FALSE), 1, Fence, FALSE, FALSE))

\* fetchGrok after `await resp.json()`
FetchGrok(data) ==
    IF data.content \in {Undefined, Null, <<>>}
    THEN Threw("INVALID_RESPONSE")
    ELSE SafeJsonParse(StripFences(data.content), NoValue)

\* fetchOpenAIBatch after `await resp.json()`: the INVALID_RESPONSE thrown
\* for a value that is no array is caught by the catch around JSON.parse
OpenAIParsed(parsed) ==
    IF parsed.ok /\ parsed.value.type = "array" THEN Returned(parsed.value)
    ELSE Threw("JSON_PARSE_ERROR")
FetchOpenAIBatch(data) ==
    IF data.content \in {Undefined, Null, <<>>}
    THEN Threw("INVALID_RESPONSE")
    ELSE OpenAIParsed(ParseJson(ExtractJsonArray(data.content)))

FetchBatch(provider, data) ==
    IF provider = "gemini" THEN FetchGemini(data)
    ELSE IF provider = "grok" THEN FetchGrok(data)
    ELSE FetchOpenAIBatch(data)

\* the texts of a prompt, the user prompts callAI makes and the answer a
\* server gives when it follows the system prompt
TextsOf(prompt) == StringArray(prompt).values
InputTexts(n) == [i \in 1..n |-> Decimal(i)]
Translated(chunk) == [i \in DOMAIN chunk |-> <<"T">> \o chunk[i]]

\* what a server puts into the content of its answer for this chunk
ContentsFor(chunk) ==
    { JsonStringify(Translated(chunk)),
      JsonStringify(SubSeq(Translated(chunk), 1, Len(chunk) - 1)),
      JsonStringify(Append(Translated(chunk), <<"x">>)),
      FenceJson \o <<"\n">> \o JsonStringify(Translated(chunk)) \o <<"\n">> \o Fence,
      Fence \o <<"J", "S", "O", "N", "\n">> \o JsonStringify(Translated(chunk))
          \o <<"\n">> \o Fence,
      <<"o", "k", ":", " ">> \o JsonStringify(Translated(chunk)),
      SubSeq(JsonStringify(Translated(chunk)), 1, Len(JsonStringify(Translated(chunk))) - 1),
      <<"\"", "a", "\"">>,
      <<" ">>,
      <<>> }
Payloads(chunk) ==
    {Payload(c, Stop) : c \in ContentsFor(chunk)}
        \cup {Payload(c, f) : c \in {Undefined, Null}, f \in {Undefined, Stop, Safety}}

\* the answers a server can give to the request that is under way
AnswersTo(f) ==
    IF f.sent = <<>> THEN {} ELSE Payloads(TextsOf(f.sent[Len(f.sent)]))

\* the codes of a failed request: fetch rejected, or getErrorCodeFromStatus
HttpFailureCodes ==
    {"NETWORK_ERROR", "INVALID_API_KEY", "RATE_LIMITED", "TIMEOUT_ERROR", "API_ERROR"}

\* variant: every chunk runs to the end of the input
SliceToEnd(inputArray, i) == SubSeq(inputArray, i + 1, Len(inputArray))

\* inputArray.slice(i, i + OPENAI_MAX_ITEMS_PER_BATCH)
Slice(inputArray, i) ==
    SubSeq(inputArray, i + 1,
           IF i + OPENAI_MAX_ITEMS_PER_BATCH < Len(inputArray)
           THEN i + OPENAI_MAX_ITEMS_PER_BATCH ELSE Len(inputArray))

\* fetchOpenAI takes the chunk loop
Chunked(f) == f.provider = "openai" /\ Len(f.inputArray) > OPENAI_MAX_ITEMS_PER_BATCH

InitProviders ==
    /\ now = TTL_MS
    /\ memoryCache = <<>>
    /\ dbOpen = FALSE
    /\ db = {}
    /\ cacheBefore = {}
    /\ RequestIdle
    /\ ParserUnitIdle
    /\ CacheUnitIdle
    /\ fetch \in {[pc |-> "start", provider |-> p, prompt |-> JsonStringify(InputTexts(n)),
                   inputArray |-> <<>>, offset |-> 0, sent |-> <<>>, results |-> <<>>,
                   responses |-> <<>>, outcome |-> Pending]
                     : p \in Providers, n \in 1..MaxBatchTexts}

providerUnitFrame == <<cacheVars, microtasks, requestVars, outputVars, historyVars,
                       parserUnitVars, cacheUnitVars>>

\* the provider function up to its first `await fetch(...)`
Started(f, inputArray) ==
    [f EXCEPT
        !.pc = "await",
        !.inputArray = inputArray,
        !.sent = IF Len(inputArray) > OPENAI_MAX_ITEMS_PER_BATCH
                 THEN <<JsonStringify(Slice(inputArray, 0))>>
                 ELSE <<f.prompt>>]
FetchStarts ==
    /\ fetch.pc = "start"
    /\ fetch' = Started(fetch, IF fetch.provider = "openai" THEN TextsOf(fetch.prompt)
                               ELSE <<>>)
    /\ UNCHANGED providerUnitFrame

\* variant: the length of a chunk's answer is not compared with the chunk
BatchAnsweredUnchecked(data, batch) ==
    fetch' =
        IF ~Chunked(fetch) \/ batch.threw # NoCode
        THEN [fetch EXCEPT !.pc = "done", !.responses = Append(@, data), !.outcome = batch]
        ELSE IF fetch.offset + OPENAI_MAX_ITEMS_PER_BATCH < Len(fetch.inputArray)
        THEN [fetch EXCEPT
                 !.responses = Append(@, data),
                 !.results = @ \o batch.value.values,
                 !.offset = @ + OPENAI_MAX_ITEMS_PER_BATCH,
                 !.sent = Append(@, JsonStringify(
                              Slice(fetch.inputArray,
                                    fetch.offset + OPENAI_MAX_ITEMS_PER_BATCH)))]
        ELSE [fetch EXCEPT
                 !.pc = "done", !.responses = Append(@, data),
                 !.results = @ \o batch.value.values,
                 !.offset = @ + OPENAI_MAX_ITEMS_PER_BATCH,
                 !.outcome = Returned(ArrayValue(fetch.results \o batch.value.values))]

\* the provider function from the answer to the request on, with what
\* the batch function made of the answer
BatchAnswered(data, batch) ==
    fetch' =
        IF ~Chunked(fetch) \/ batch.threw # NoCode
        THEN [fetch EXCEPT !.pc = "done", !.responses = Append(@, data), !.outcome = batch]
        ELSE IF Len(batch.value.values) # Len(Slice(fetch.inputArray, fetch.offset))
        THEN [fetch EXCEPT !.pc = "done", !.responses = Append(@, data),
                           !.outcome = Threw("RESPONSE_MISMATCH")]
        ELSE IF fetch.offset + OPENAI_MAX_ITEMS_PER_BATCH < Len(fetch.inputArray)
        THEN [fetch EXCEPT
                 !.responses = Append(@, data),
                 !.results = @ \o batch.value.values,
                 !.offset = @ + OPENAI_MAX_ITEMS_PER_BATCH,
                 !.sent = Append(@, JsonStringify(
                              Slice(fetch.inputArray,
                                    fetch.offset + OPENAI_MAX_ITEMS_PER_BATCH)))]
        ELSE [fetch EXCEPT
                 !.pc = "done", !.responses = Append(@, data),
                 !.results = @ \o batch.value.values,
                 !.offset = @ + OPENAI_MAX_ITEMS_PER_BATCH,
                 !.outcome = Returned(ArrayValue(fetch.results \o batch.value.values))]

\* the server answers the request with a successful response
HttpResponds(data) ==
    /\ fetch.pc = "await"
    /\ data \in AnswersTo(fetch)
    /\ BatchAnswered(data, FetchBatch(fetch.provider, data))
    /\ UNCHANGED providerUnitFrame

\* fetch rejects, or the response is not ok
HttpFails(code) ==
    /\ fetch.pc = "await"
    /\ fetch' = [fetch EXCEPT !.pc = "done", !.outcome = Threw(code)]
    /\ UNCHANGED providerUnitFrame

NextProviders ==
    \/ FetchStarts
    \/ \E data \in AnswersTo(fetch) : HttpResponds(data)
    \/ \E code \in HttpFailureCodes : HttpFails(code)

SpecProviders == InitProviders /\ [][NextProviders]_vars

----------------------------------------------------------------------------
(* Dispatch: callAI or callAIStream is called with a model identifier and  *)
(* the three credentials, and calls the provider function it selects       *)

DispatchModels ==
    { <<>>, <<"g", "r", "o", "k">>, <<"g", "r", "o", "k", "-", "3">>,
      <<"g", "p", "t">>, <<"g", "p", "t", "-", "4">>, <<"g", "e", "m", "i", "n", "i">>,
      <<"G", "P", "T", "-", "4">>, <<"x", "g", "r", "o", "k">>, <<"g", "r", "o">> }

\* the credentials differ by provider so that the one passed on is seen
DispatchSettings ==
    [selectedModel : DispatchModels, geminiApiKey : {<<>>, <<"k", "1">>},
     grokApiKey : {<<>>, <<"k", "2">>}, openaiApiKey : {<<>>, <<"k", "3">>}]

\* the credential callAI passes to the provider function
KeyFor(settings, provider) ==
    IF provider = "grok" THEN settings.grokApiKey
    ELSE IF provider = "openai" THEN settings.openaiApiKey
    ELSE settings.geminiApiKey

\* `model || 'models/gemini-2.5-flash'` for Gemini, the model for the others
ModelFor(settings, provider) ==
    IF provider = "gemini" /\ settings.selectedModel = <<>>
    THEN <<"m", "o", "d", "e", "l", "s", "/", "g", "e", "m", "i", "n", "i",
           "-", "2", ".", "5", "-", "f", "l", "a", "s", "h">>
    ELSE settings.selectedModel

\* a call of a provider function as the dispatcher makes it
ProviderCall(streaming, settings, provider) ==
    [provider |-> provider, streaming |-> streaming,
     apiKey |-> KeyFor(settings, provider), model |-> ModelFor(settings, provider)]

InitDispatch ==
    /\ now = TTL_MS
    /\ memoryCache = <<>>
    /\ dbOpen = FALSE
    /\ db = {}
    /\ cacheBefore = {}
    /\ RequestIdle
    /\ ParserUnitIdle
    /\ CacheUnitIdle
    /\ fetch \in {[pc |-> "dispatch", streaming |-> st, settings |-> settings,
                   textArray |-> InputTexts(n), called |-> <<>>,
                   provider |-> "none", prompt |-> <<>>,
                   inputArray |-> <<>>, offset |-> 0, sent |-> <<>>, results |-> <<>>,
                   responses |-> <<>>, outcome |-> Pending]
                     : st \in BOOLEAN, settings \in DispatchSettings, n \in 1..MaxTexts}

\* what the dispatcher does with the routing decided: it throws, or calls
\* the provider function, which runs up to its first await; the course of
\* a streaming provider function is not followed here
Dispatched(call) ==
    fetch' =
        IF call.error # NoCode
        THEN [fetch EXCEPT !.pc = "done", !.outcome = Threw(call.error)]
        ELSE IF fetch.streaming
        THEN [fetch EXCEPT
                 !.pc = "streaming",
                 !.provider = call.provider,
                 !.prompt = JsonStringify(fetch.textArray),
                 !.called = Append(@, ProviderCall(TRUE, fetch.settings, call.provider))]
        ELSE Started([fetch EXCEPT
                         !.provider = call.provider,
                         !.prompt = JsonStringify(fetch.textArray),
                         !.called = Append(@, ProviderCall(FALSE, fetch.settings,
                                                           call.provider))],
                     IF call.provider = "openai" THEN fetch.textArray ELSE <<>>)

\* callAI(textArray, source, target, model, gemKey, grokKey, openaiKey)
CallAICalled ==
    /\ fetch.pc = "dispatch"
    /\ ~fetch.streaming
    /\ Dispatched(CallAI(fetch.settings.selectedModel, fetch.settings.geminiApiKey,
                         fetch.settings.grokApiKey, fetch.settings.openaiApiKey))
    /\ UNCHANGED providerUnitFrame

\* callAIStream(textArray, source, target, model, gemKey, grokKey, openaiKey, onChunk)
CallAIStreamCalled ==
    /\ fetch.pc = "dispatch"
    /\ fetch.streaming
    /\ Dispatched(CallAIStream(fetch.settings.selectedModel, fetch.settings.geminiApiKey,
                               fetch.settings.grokApiKey, fetch.settings.openaiApiKey))
    /\ UNCHANGED providerUnitFrame

NextDispatch ==
    \/ CallAICalled
    \/ CallAIStreamCalled
    \/ \E data \in AnswersTo(fetch) : HttpResponds(data)
    \/ \E code \in HttpFailureCodes : HttpFails(code)

SpecDispatch == InitDispatch /\ [][NextDispatch]_vars

----------------------------------------------------------------------------
(* Properties of the provider functions                                    *)

\* ceil(n / OPENAI_MAX_ITEMS_PER_BATCH)
ChunkCount(n) == (n + OPENAI_MAX_ITEMS_PER_BATCH - 1) \div OPENAI_MAX_ITEMS_PER_BATCH

\* fetchOpenAI was called with more texts than one request may carry
ChunkedCall ==
    /\ fetch.provider = "openai"
    /\ fetch.pc # "start"
    /\ Len(TextsOf(fetch.prompt)) > OPENAI_MAX_ITEMS_PER_BATCH

\* the k-th request carries the k-th run of at most 20 consecutive texts
SentInOrder(textArray) ==
    \A k \in 1..Len(fetch.sent) :
        /\ TextsOf(fetch.sent[k]) =
               SubSeq(textArray, OPENAI_MAX_ITEMS_PER_BATCH * (k - 1) + 1,
                      IF OPENAI_MAX_ITEMS_PER_BATCH * k < Len(textArray)
                      THEN OPENAI_MAX_ITEMS_PER_BATCH * k ELSE Len(textArray))
        /\ Len(TextsOf(fetch.sent[k])) \in 1..OPENAI_MAX_ITEMS_PER_BATCH

\* a request is under way only when every earlier one was answered with a
\* result, and the call ends with as many answers as requests
OneAtATime ==
    /\ fetch.pc = "await" =>
           /\ Len(fetch.responses) = Len(fetch.sent) - 1
           /\ Len(fetch.results) = OPENAI_MAX_ITEMS_PER_BATCH * (Len(fetch.sent) - 1)
    /\ fetch.pc = "done" /\ fetch.outcome.threw \notin HttpFailureCodes =>
           Len(fetch.responses) = Len(fetch.sent)

\* the call returned: all chunks were requested and the result holds the
\* translations of the chunks in the order of the input
MergedInOrder(textArray) ==
    fetch.pc = "done" /\ fetch.outcome.threw = NoCode =>
        /\ Len(fetch.sent) = ChunkCount(Len(textArray))
        /\ fetch.outcome.value = ArrayValue(Translated(textArray))
        /\ Len(fetch.outcome.value.values) = Len(textArray)

ChunkedAsClaimed(textArray) ==
    /\ Len(fetch.sent) \in 1..ChunkCount(Len(textArray))
    /\ SentInOrder(textArray)
    /\ OneAtATime
    /\ MergedInOrder(textArray)

\* C25: fetchOpenAI splits more than 20 texts into ceil(n/20) requests of at
\* most 20 consecutive texts in input order, sends each request only after
\* the answer to the one before, and returns the chunk results joined in
\* chunk order, n strings in all
C25_ChunksInOrder == ChunkedCall => ChunkedAsClaimed(TextsOf(fetch.prompt))

\* 25 texts were sent as 20 and 5 and 25 translations came back
C25_Witness ==
    /\ ChunkedCall
    /\ Len(TextsOf(fetch.prompt)) = 25
    /\ fetch.pc = "done"
    /\ fetch.outcome = Returned(ArrayValue(Translated(InputTexts(25))))
    /\ Len(fetch.sent) = 2
    /\ Len(TextsOf(fetch.sent[1])) = 20
    /\ Len(TextsOf(fetch.sent[2])) = 5

\* the step is an answer to a chunk's request that fetchOpenAIBatch turns
\* into an array whose length is not the chunk's
MismatchedAnswer(data) ==
    /\ fetch.pc = "await"
    /\ Chunked(fetch)
    /\ fetch'.responses = Append(fetch.responses, data)
    /\ FetchOpenAIBatch(data).threw = NoCode
    /\ Len(FetchOpenAIBatch(data).value.values) # Len(TextsOf(fetch.sent[Len(fetch.sent)]))

MismatchFailsCall ==
    /\ fetch'.pc = "done"
    /\ fetch'.outcome = Threw("RESPONSE_MISMATCH")
    /\ fetch'.sent = fetch.sent

\* C26: when the answer to a chunk has another length than the chunk,
\* fetchOpenAI throws RESPONSE_MISMATCH: it returns nothing, not even the
\* results of the chunks before, and sends no request for a later chunk
C26_ChunkMismatchFailsCall ==
    [][/\ \A data \in AnswersTo(fetch) : MismatchedAnswer(data) => MismatchFailsCall
       /\ (fetch.pc = "done" => fetch' = fetch)]_vars

\* the second of three chunks was answered with a wrong length: 20 results
\* were collected, the third chunk was never requested
C26_Witness ==
    /\ fetch.pc = "done"
    /\ fetch.outcome = Threw("RESPONSE_MISMATCH")
    /\ Len(fetch.results) = OPENAI_MAX_ITEMS_PER_BATCH
    /\ Len(fetch.sent) = 2
    /\ ChunkCount(Len(fetch.inputArray)) = 3

\* the provider function has ended on the answer to its last request
Answered ==
    /\ fetch.pc = "done"
    /\ fetch.responses # <<>>
    /\ Len(fetch.responses) = Len(fetch.sent)

LastAnswer == fetch.responses[Len(fetch.responses)]

\* the content is text and no JSON, neither as it stands nor with its code
\* fences removed nor in the part from its first "[" to its last "]"
Malformed(content) ==
    /\ content \notin {Undefined, Null, <<>>}
    /\ ~ParseJson(content).ok
    /\ ~ParseJson(StripFences(content)).ok
    /\ ~ParseJson(ExtractJsonArray(content)).ok

\* C27: for each of fetchGemini, fetchGrok and fetchOpenAI, a successful
\* response whose content is not parseable as JSON ends the call with
\* JSON_PARSE_ERROR, and the call returns no result for it
C27_MalformedJsonFails ==
    Answered /\ Malformed(LastAnswer.content) => fetch.outcome = Threw("JSON_PARSE_ERROR")

\* the content is absent or the empty string, and the response does not
\* name a reason for which it was blocked
NoContent(data) ==
    /\ data.content \in {Undefined, Null, <<>>}
    /\ data.finishReason \in {Undefined, Stop}

\* C28: for each of fetchGemini, fetchGrok and fetchOpenAI, a successful
\* response whose content is missing or empty ends the call with
\* INVALID_RESPONSE
C28_NoContentFails ==
    Answered /\ NoContent(LastAnswer) => fetch.outcome = Threw("INVALID_RESPONSE")

\* the provider the model identifier stands for
SelectedProvider(model) ==
    IF StartsWith(model, <<"g", "r", "o", "k">>) THEN "grok"
    ELSE IF StartsWith(model, <<"g", "p", "t">>) THEN "openai"
    ELSE "gemini"

MissingKeyCode(provider) ==
    IF provider = "grok" THEN "GROK_API_KEY_MISSING"
    ELSE IF provider = "openai" THEN "OPENAI_API_KEY_MISSING"
    ELSE "GEMINI_API_KEY_MISSING"

\* the dispatcher has run: without the credential of the selected provider
\* it threw that provider's error and called no provider function; with it
\* the one provider function called so far, and ever, is the selected one
\* in the form asked for, with that provider's credential
DispatchedTo(provider) ==
    IF KeyFor(fetch.settings, provider) = <<>>
    THEN /\ fetch.pc = "done"
         /\ fetch.outcome = Threw(MissingKeyCode(provider))
         /\ fetch.called = <<>>
         /\ fetch.sent = <<>>
    ELSE /\ Len(fetch.called) = 1
         /\ fetch.called[1].provider = provider
         /\ fetch.called[1].streaming = fetch.streaming
         /\ fetch.called[1].apiKey = KeyFor(fetch.settings, provider)
         /\ fetch.provider = provider
         /\ fetch.outcome.threw \notin
                {"GROK_API_KEY_MISSING", "OPENAI_API_KEY_MISSING", "GEMINI_API_KEY_MISSING"}

\* C29: callAI and callAIStream select one provider by the model identifier
\* (prefix grok: Grok, prefix gpt: OpenAI, anything else and the empty
\* identifier: Gemini); when the credential of that provider is empty they
\* fail with that provider's missing-credential error before any provider
\* function is called, and no other provider is called for the request
C29_OneProviderDispatched ==
    fetch.pc # "dispatch" => DispatchedTo(SelectedProvider(fetch.settings.selectedModel))

\* a grok model without the Grok credential, the other two credentials
\* given: GROK_API_KEY_MISSING and no provider function called
C29_Witness ==
    /\ fetch.pc = "done"
    /\ fetch.settings.selectedModel = <<"g", "r", "o", "k", "-", "3">>
    /\ fetch.settings.grokApiKey = <<>>
    /\ fetch.settings.geminiApiKey # <<>>
    /\ fetch.settings.openaiApiKey # <<>>
    /\ fetch.outcome = Threw("GROK_API_KEY_MISSING")
    /\ fetch.called = <<>>

----------------------------------------------------------------------------
(* Cache writes of a streaming session                                     *)

\* every translationCache.set call onElement made has its 'element' event
\* on the port: the k-th call belongs to the k-th 'element' event
WritesFollowEvents(events) ==
    /\ Len(setCalls') <= Len(events)
    /\ \A k \in DOMAIN setCalls' : events[k].text = setCalls'[k].translation

\* nothing waits for a write of the session: no transaction has a set()
\* behind it that somebody awaits, and no continuation of a set() is queued
WritesDetached ==
    /\ \A k \in DOMAIN dbWrites' : dbWrites'[k].owner = Detached
    /\ \A k \in DOMAIN microtasks' : microtasks'[k].kind # "set"

\* the step ends a transaction, with tx.oncomplete or tx.onerror
WriteEnds == dbWrites # <<>> /\ dbWrites' = Tail(dbWrites)

\* C30: in a streaming session the 'element' event of an element is posted
\* before its cache write is started, later 'element' events and the
\* terminal event do not wait for writes that are pending, and a cache
\* write that fails posts no 'error' event
C30_WritesNeverStallStream ==
    [][mode' = "stream" =>
           /\ WritesFollowEvents(SelectSeq(port', IsElement))
           /\ WritesDetached
           /\ (WriteEnds => port' = port)
           /\ (dbWrites # <<>> /\ port' # port => dbWrites' # <<>>
                   /\ SubSeq(dbWrites', 1, Len(dbWrites)) = dbWrites)]_vars

\* two elements and 'complete' were posted and no 'error', while the write
\* of the first element had failed and the write of the second was pending
C30_Witness ==
    /\ mode = "stream"
    /\ Len(port) = 3
    /\ port[1].type = "element"
    /\ port[2].type = "element"
    /\ port[3].type = "complete"
    /\ Len(setCalls) = 2
    /\ Len(dbWrites) = 1
    /\ dbWrites[1].key = MakeKey(Source, Target, setCalls[2].text)
    /\ ~DbHas(db, MakeKey(Source, Target, setCalls[1].text))

----------------------------------------------------------------------------
(* Properties of the parser's bookkeeping                                  *)

\* the values passed to onElement among the calls, in order
Emitted(calls) ==
    [k \in DOMAIN CallsOf(calls, "onElement") |-> CallsOf(calls, "onElement")[k].element]

\* the indices passed to onElement are 0, 1, 2, ... in the order of the calls
IndicesCountUp ==
    \A k \in DOMAIN CallsOf(parserCalls, "onElement") :
        CallsOf(parserCalls, "onElement")[k].index = k - 1

\* every onComplete call was given the values emitted before it
CompleteListsEmitted ==
    \A i \in DOMAIN parserCalls :
        parserCalls[i].cb = "onComplete" =>
            parserCalls[i].elements = Emitted(SubSeq(parserCalls, 1, i - 1))

FedOneChar == Len(fedText') = Len(fedText) + 1

\* inString changes only on a quote that no backslash escapes
InStringToggles(char) ==
    parser'.inString # parser.inString => char = "\"" /\ ~parser.escapeNext

\* escapeNext is set only by a backslash inside a string and lasts for
\* one character
EscapeLastsOneChar(char) ==
    /\ parser'.escapeNext => char = "\\" /\ parser.inString /\ ~parser.escapeNext
    /\ parser.escapeNext => ~parser'.escapeNext

\* inside a string a structural character is only appended
StructuralCopied(char) ==
    parser.inString /\ char \in {",", "[", "]"} =>
        /\ parser'.currentElement = Append(parser.currentElement, char)
        /\ parser'.bracketDepth = parser.bracketDepth
        /\ parser'.elements = parser.elements
        /\ parser'.elementIndex = parser.elementIndex
        /\ parser'.inString
        /\ parserCalls' = parserCalls

StringContextAfter(char) ==
    InStringToggles(char) /\ EscapeLastsOneChar(char) /\ StructuralCopied(char)

\* C32: after every character, inString has changed only if the character
\* was a quote processed while escapeNext was false, escapeNext is true
\* only if the character was a backslash processed inside a string and is
\* false after the character that follows it, and a comma or bracket
\* processed inside a string was appended to the current element without
\* an element being emitted, bracketDepth changing or onComplete being called
C32_StringContextKept ==
    [][FedOneChar => StringContextAfter(fedText'[Len(fedText')])]_vars

\* ["\", has been fed: the escaped quote did not end the string and the
\* comma after it is part of the element
C32_Witness ==
    /\ fedText = <<"[", "\"", "\\", "\"", ",">>
    /\ parser.inString
    /\ ~parser.escapeNext
    /\ parser.currentElement = <<"\"", "\\", "\"", ",">>
    /\ parser.bracketDepth = 0
    /\ parserCalls = <<>>

\* the character is the "]" that closes the array the first "[" opened:
\* it is met outside a string, after the array was started, with no nested
\* array open and no completion made before
ClosesTopLevelArray(char) ==
    /\ char = "]"
    /\ ~parser.inString
    /\ ~parser.escapeNext
    /\ parser.started
    /\ parser.bracketDepth = 0
    /\ CallsOf(parserCalls, "onComplete") = <<>>

\* C33: onComplete is invoked only when a "]" outside a string closes the
\* array opened by the first "[": not for the "]" of a nested array, not
\* for a "]" met before any "[", and not again for input after the closing
\* bracket of the top-level array
C33_OnlyTopLevelCloseCompletes ==
    [][FedOneChar /\ CallsOf(parserCalls', "onComplete") # CallsOf(parserCalls, "onComplete")
           => ClosesTopLevelArray(fedText'[Len(fedText')])]_vars

\* the length of the texts of the first p elements of the array
RECURSIVE TextLength(_, _)
TextLength(es, p) == IF p = 0 THEN 0 ELSE TextLength(es, p - 1) + Len(es[p].text)

\* the position in the input of the delimiter after element p: the text is
\* "[", the elements separated by ", ", and "]"
DelimiterAt(p) == 1 + TextLength(input.elements, p) + 2 * (p - 1) + 1

\* the number of elements whose delimiter has been fed
DelimitersFed ==
    Cardinality({p \in DOMAIN input.elements : DelimiterAt(p) <= Len(fedText)})

\* the strings among the first m elements, in order
RECURSIVE StringsAmong(_, _)
StringsAmong(es, m) ==
    IF m = 0 THEN <<>>
    ELSE StringsAmong(es, m - 1)
             \o (IF es[m].kind = "string" THEN <<es[m].value>> ELSE <<>>)

\* C34: at every point of the feeding of an array, the strings passed to
\* onElement are those of the string elements whose delimiter (the "," or
\* the closing "]" after the closing quote) has been processed: an element
\* is emitted with its delimiter, without waiting for the closing "]" or a
\* later element, and not while only its closing quote has been fed
C34_EmittedWithDelimiter ==
    input.isArray =>
        SelectSeq(Emitted(parserCalls), LAMBDA v : v # <<>>)
            = StringsAmong(input.elements, DelimitersFed)

\* of ["a", "a"] all but the closing bracket has been fed: the first
\* element was emitted, the second, whose closing quote was fed, was not
C34_Witness ==
    /\ input.isArray
    /\ ~parserEnded
    /\ fedText = <<"[", "\"", "a", "\"", ",", " ", "\"", "a", "\"">>
    /\ parserCalls = <<OnElement(<<"a">>, 0)>>
    /\ ~parser.inString

\* the character ends an element: a "," or "]" met outside a string and
\* outside a nested array, with text in the buffer
EndsElement(char) ==
    /\ char \in {",", "]"}
    /\ ~parser.inString
    /\ ~parser.escapeNext
    /\ parser.bracketDepth = 0
    /\ Trim(parser.currentElement) # <<>>

\* the callbacks the step made
NewCalls == SubSeq(parserCalls', Len(parserCalls) + 1, Len(parserCalls'))

\* the element was dropped: no onElement and no onError, the index and the
\* list as before, the buffer empty
ElementSkipped ==
    /\ CallsOf(NewCalls, "onElement") = <<>>
    /\ CallsOf(NewCalls, "onError") = <<>>
    /\ parser'.elementIndex = parser.elementIndex
    /\ parser'.elements = parser.elements
    /\ parser'.currentElement = <<>>

\* the element was emitted once, with the next index
ElementEmitted ==
    /\ Len(CallsOf(NewCalls, "onElement")) = 1
    /\ CallsOf(NewCalls, "onElement")[1].index = parser.elementIndex
    /\ parser'.elementIndex = parser.elementIndex + 1
    /\ parser'.currentElement = <<>>

\* C35: when feed() reaches the end of an element whose text fails to
\* decode as JSON, the element is skipped: neither onElement nor onError is
\* called, elementIndex stays, the buffer is reset; and every element that
\* decodes is emitted, whatever was skipped before it
C35_UndecodableElementSkipped ==
    [][FedOneChar /\ EndsElement(fedText'[Len(fedText')]) =>
           IF JsonParse(Trim(parser.currentElement)).ok
           THEN ElementEmitted ELSE ElementSkipped]_vars

\* [{"k":1,"m":2}, "a"] has been fed: the two pieces of the object were
\* skipped and the string after them was emitted with index 0
C35_Witness ==
    /\ input.isArray
    /\ Len(input.elements) = 2
    /\ input.elements[1].kind = "object"
    /\ fedText = input.text
    /\ parserCalls = <<OnElement(<<"a">>, 0), OnComplete(<< <<"a">> >>)>>
    /\ parser.elementIndex = 1

----------------------------------------------------------------------------
(* The streaming provider functions: fetchGeminiStream, fetchGrokStream    *)
(* and fetchOpenAIBatchStream read the body of the response and pass the   *)
(* text of every data frame to onChunk                                     *)

MaxFrames == 2

DataPrefix == <<"d", "a", "t", "a", ":", " ">>
DoneFrame == <<"[", "D", "O", "N", "E", "]">>

\* the JSON of a frame around its text: candidates[0].content.parts[0].text
\* for Gemini, choices[0].delta.content for Grok and OpenAI
GeminiBefore ==
    <<"{", "\"", "c", "a", "n", "d", "i", "d", "a", "t", "e", "s", "\"", ":",
      "[", "{", "\"", "c", "o", "n", "t", "e", "n", "t", "\"", ":", "{",
      "\"", "p", "a", "r", "t", "s", "\"", ":", "[", "{", "\"", "t", "e",
      "x", "t", "\"", ":">>
GeminiAfter ==
    <<"}", "]", "}", "}", "]", "}">>
ChoicesBefore ==
    <<"{", "\"", "c", "h", "o", "i", "c", "e", "s", "\"", ":", "[", "{",
      "\"", "d", "e", "l", "t", "a", "\"", ":", "{", "\"", "c", "o", "n",
      "t", "e", "n", "t", "\"", ":">>
ChoicesAfter ==
    <<"}", "}", "]", "}">>
Before(provider) == IF provider = "gemini" THEN GeminiBefore ELSE ChoicesBefore
Behind(provider) == IF provider = "gemini" THEN GeminiAfter ELSE ChoicesAfter

\* the frames a server sends: one with a text, one with the empty text,
\* one without the text property, one that is no JSON, and the last one
FrameKinds == {"a", "b", "empty", "none", "malformed", "done"}
FrameJson(provider, kind) ==
    CASE kind = "a" -> Before(provider) \o <<"\"", "a", "\"">> \o Behind(provider)
      [] kind = "b" -> Before(provider) \o <<"\"", "b", ",", "\"">> \o Behind(provider)
      [] kind = "empty" -> Before(provider) \o <<"\"", "\"">> \o Behind(provider)
      [] kind = "none" -> <<"{", "}">>
      [] kind = "malformed" -> <<"{", "\"", "c", "h", "o">>
      [] OTHER -> DoneFrame

\* the bytes of a stream of frames: "data: <frame>\n\n" for each
RECURSIVE StreamText(_, _)
StreamText(provider, kinds) ==
    IF kinds = <<>> THEN <<>>
    ELSE DataPrefix \o FrameJson(provider, Head(kinds)) \o <<"\n", "\n">>
             \o StreamText(provider, Tail(kinds))

\* text.split('\n')
RECURSIVE Split(_, _)
SplitAt(text, i, j) == <<SubSeq(text, i, j - 1)>> \o Split(text, j + 1)
Split(text, i) ==
    IF \E j \in i..Len(text) : text[j] = "\n"
    THEN SplitAt(text, i, CHOOSE j \in i..Len(text) :
                              text[j] = "\n" /\ \A h \in i..(j - 1) : text[h] # "\n")
    ELSE <<SubSeq(text, i, Len(text))>>

EndsWith(s, suffix) ==
    Len(s) >= Len(suffix) /\ SubSeq(s, Len(s) - Len(suffix) + 1, Len(s)) = suffix

\* the text property of JSON.parse(jsonStr), as a list: empty when the
\* property is absent, when it is the empty string (falsy), and when
\* JSON.parse throws, which the catch ignores.  Among the frames of the
\* model the parsed value has the property when the frame has its shape
TextProperty(provider, jsonStr, parsed) ==
    IF /\ parsed.ok
       /\ StartsWith(jsonStr, Before(provider))
       /\ EndsWith(jsonStr, Behind(provider))
       /\ Len(jsonStr) > Len(Before(provider)) + Len(Behind(provider))
    THEN <<DecodeString(jsonStr, Len(Before(provider)) + 2)>>
    ELSE <<>>

\* the body of `for (const line of lines)`: the onChunk call the line makes
LineChunk(provider, line, jsonStr) ==
    IF StartsWith(line, DataPrefix) /\ jsonStr # <<>> /\ jsonStr # DoneFrame
    THEN SelectSeq(TextProperty(provider, jsonStr, JsonParse(jsonStr)),
                   LAMBDA text : text # <<>>)
    ELSE <<>>

\* the onChunk calls of the lines, in order
RECURSIVE LinesChunks(_, _)
LinesChunks(provider, lines) ==
    IF lines = <<>> THEN <<>>
    ELSE LineChunk(provider, Head(lines), Trim(SubSeq(Head(lines), 7, Len(Head(lines)))))
             \o LinesChunks(provider, Tail(lines))

\* one turn of the read loop of fetchGeminiStream: the chunk is split into
\* lines and every line is processed
GeminiRead(f, chunk) ==
    [f EXCEPT !.pos = @ + Len(chunk),
              !.chunks = @ \o LinesChunks("gemini", Split(chunk, 1))]

\* one turn of the read loop of fetchGrokStream and fetchOpenAIBatchStream:
\* the chunk is added to the buffer, the last line stays in the buffer
BufferedLines(f, lines) ==
    [f EXCEPT !.buffer = lines[Len(lines)],
              !.chunks = @ \o LinesChunks(f.provider, SubSeq(lines, 1, Len(lines) - 1))]
BufferedRead(f, chunk) ==
    BufferedLines([f EXCEPT !.pos = @ + Len(chunk)],
                  Split(f.buffer \o chunk, 1))

\* a streaming provider function whose request was answered with a body
InitStreams ==
    /\ now = TTL_MS
    /\ memoryCache = <<>>
    /\ dbOpen = FALSE
    /\ db = {}
    /\ cacheBefore = {}
    /\ RequestIdle
    /\ ParserUnitIdle
    /\ CacheUnitIdle
    /\ fetch \in {[pc |-> "reading", provider |-> p, frames |-> kinds,
                   body |-> StreamText(p, kinds), pos |-> 0,
                   buffer |-> <<>>, chunks |-> <<>>, midLine |-> FALSE]
                     : p \in Providers, kinds \in SeqsUpTo(FrameKinds, MaxFrames) \ {<<>>}}

\* the read ends inside a line: bytes of the line are still to come
EndsMidLine(f, k) ==
    f.pos + k < Len(f.body) /\ f.body[f.pos + k] # "\n"

\* `await reader.read()` returns the next k bytes of the body, and the loop
\* body runs
ReaderRead(k, chunk) ==
    /\ fetch' = [(IF fetch.provider = "gemini" THEN GeminiRead(fetch, chunk)
                  ELSE BufferedRead(fetch, chunk))
                     EXCEPT !.midLine = @ \/ EndsMidLine(fetch, k)]
    /\ UNCHANGED providerUnitFrame
ReaderReads(k) ==
    /\ fetch.pc = "reading"
    /\ k \in 1..(Len(fetch.body) - fetch.pos)
    /\ ReaderRead(k, SubSeq(fetch.body, fetch.pos + 1, fetch.pos + k))

\* `await reader.read()` returns done: the loop ends, the function returns
ReaderDone ==
    /\ fetch.pc = "reading"
    /\ fetch.pos = Len(fetch.body)
    /\ fetch' = [fetch EXCEPT !.pc = "done"]
    /\ UNCHANGED providerUnitFrame

\* `await reader.read()` rejects: the function rejects after releaseLock()
ReaderFails ==
    /\ fetch.pc = "reading"
    /\ fetch' = [fetch EXCEPT !.pc = "failed"]
    /\ UNCHANGED providerUnitFrame

NextStreams ==
    \/ \E k \in 1..Len(fetch.body) : ReaderReads(k)
    \/ ReaderDone
    \/ ReaderFails

SpecStreams == InitStreams /\ [][NextStreams]_vars

\* the texts of the frames that carry a non-empty text, in order
RECURSIVE FrameTexts(_)
FrameTexts(kinds) ==
    IF kinds = <<>> THEN <<>>
    ELSE (CASE Head(kinds) = "a" -> << <<"a">> >>
            [] Head(kinds) = "b" -> << <<"b", ",">> >>
            [] OTHER -> <<>>)
             \o FrameTexts(Tail(kinds))

\* the texts passed to onChunk are the first of the frame texts
ChunksSoFar ==
    /\ Len(fetch.chunks) <= Len(FrameTexts(fetch.frames))
    /\ fetch.chunks = SubSeq(FrameTexts(fetch.frames), 1, Len(fetch.chunks))

\* C36: for each of the three streaming provider functions the texts
\* passed to onChunk are, in order, the texts of the data frames that carry
\* a non-empty text, however the body is split into reads, a read boundary
\* inside a frame line included; frames without text, malformed frames and
\* the [DONE] frame make no call
C36_FrameTextsDelivered ==
    /\ ChunksSoFar
    /\ fetch.pc = "done" => fetch.chunks = FrameTexts(fetch.frames)

----------------------------------------------------------------------------
(* Properties of the two tiers taken together                              *)

\* getStats(): the size of the hot tier, the count of the store (0 without
\* a store), and the store's count again as the total
GetStats ==
    [memoryCount |-> Len(memoryCache),
     dbCount |-> IF dbOpen THEN Cardinality(db) ELSE 0,
     totalCount |-> IF dbOpen THEN Cardinality(db) ELSE 0]

\* no get, set or clear is in flight
Quiescent == dbReady /\ InFlight = {}

\* every key of the hot tier is in the store with the same translation
HotWithinCold ==
    \A i \in DOMAIN memoryCache :
        /\ dbOpen
        /\ DbHas(db, memoryCache[i].key)
        /\ DbGet(db, memoryCache[i].key).translation = memoryCache[i].value

\* C37: whenever the cache is quiescent, every key of the hot tier is in the
\* cold tier with the same translation, and getStats reports
\* totalCount = dbCount >= memoryCount
C37_ColdSupersetOfHot ==
    Quiescent =>
        /\ HotWithinCold
        /\ GetStats.totalCount = GetStats.dbCount
        /\ GetStats.dbCount >= GetStats.memoryCount

----------------------------------------------------------------------------
(* Properties of the streaming session: surplus elements                   *)

\* the original positions of the texts the cache did not answer
MissPositions == {missingIndices[k] : k \in DOMAIN missingIndices}

\* the texts of the request
RequestTexts == {texts[i] : i \in DOMAIN texts}

\* the provider's output has yielded more elements than there are misses
SurplusElements == Len(parser.elements) > Len(textsToTranslate)

\* C38: in the streaming mode every 'element' event carries the original
\* position of a cache miss of the request, every cache write is keyed by a
\* text of the request, and there are no more events or writes than misses,
\* whatever the provider's output yields
C38_StreamWithinMisses ==
    mode = "stream" =>
        LET elems == SelectSeq(port, IsElement)
        IN  /\ \A k \in DOMAIN elems : elems[k].index \in MissPositions
            /\ \A k \in DOMAIN setCalls : setCalls[k].text \in RequestTexts
            /\ Len(elems) <= Len(textsToTranslate)
            /\ Len(setCalls) <= Len(textsToTranslate)

----------------------------------------------------------------------------
(* Properties of the cache while time passes: the age of what get returns  *)

\* the i-th call is a get that returns a translation in this step
GetReturns(i) ==
    /\ cacheOps'[i].kind = "get"
    /\ cacheOps'[i].stage = "done"
    /\ cacheOps'[i].result \notin {Null, Undefined}
    /\ i \in DOMAIN cacheOps => cacheOps[i].stage # "done"

\* the get was answered by the hot tier, without a transaction
ServedFromMemory(i) == i \notin DOMAIN cacheOps

\* the store's entry with the key and the translation the i-th call returns
\* is no older than TTL_MS at the return
ServedEntryFresh(i) ==
    \A e \in db :
        (e.key = cacheOps'[i].key /\ e.translation = cacheOps'[i].result)
            => ~(now - e.createdAt > TTL_MS)

----------------------------------------------------------------------------
(* processBatch called a second time with the texts of a request it has    *)
(* answered with success: nothing happens between the two requests         *)

\* the arrays callAI resolves with: JSON.parse checks no element, so an
\* element may be null
RepeatValues == BatchValues \cup {Null}
RepeatResults(m) == {r \in SeqsUpTo(RepeatValues, m + 1) : Len(r) >= m - 1}

\* handleMessage with action 'translateBatch' and the texts of the request
\* before: processBatch starts with new results, missingIndices and
\* textsToTranslate and looks every text up
RepeatRequest ==
    LET all == GetAll(texts, 0, [mem |-> memoryCache, hits |-> <<>>, misses |-> <<>>])
    IN  /\ pc = "done"
        /\ mode = "sync"
        /\ Len(responses) = 1
        /\ responses[1].success
        /\ pc' = "lookup"
        /\ results' = [i \in (0..(Len(texts) - 1)) \cup {UndefinedIndex} |->
                          IF i = UndefinedIndex THEN Undefined ELSE Null]
        /\ missingIndices' = <<>>
        /\ textsToTranslate' = <<>>
        /\ merged' = 0
        /\ memoryCache' = all.mem
        /\ microtasks' = all.hits \o
              (IF dbOpen THEN <<>>
               ELSE [k \in DOMAIN all.misses |-> LookupTask(all.misses[k], Null)])
        /\ dbReads' = IF dbOpen THEN {all.misses[k] : k \in DOMAIN all.misses} ELSE {}
        /\ got' = <<>>
        /\ providerCalls' = <<>>
        /\ providerReturns' = <<>>
        /\ setCalls' = <<>>
        /\ UNCHANGED <<unitVars, now, cacheBefore, db, dbOpen, dbWrites, mode, texts, parser,
                       streamedIndex, chunkOffset, chunkLimit, outputVars, fedText,
                       fragments, completions, thrown>>

NextRepeat ==
    \/ \E ts \in Requests : HandleMessage(ts)
    \/ \E index \in dbReads : DbReadSuccess(index)
    \/ LookupResumes
    \/ AllCached
    \/ DbWriteDone
    \/ \E settings \in Settings : CallAIStart(settings)
    \/ \E r \in RepeatResults(Len(textsToTranslate)) : ProviderReturns(r)
    \/ \E code \in GatewayCodes : ProviderThrows(code)
    \/ SetResumes
    \/ MergeDone
    \/ RepeatRequest

SpecRepeat == Init /\ [][NextRepeat]_vars

\* the repetition of a request answered with success has been answered
Repeated ==
    /\ pc = "done"
    /\ Len(responses) = 2
    /\ responses[1].success

\* C40: the repetition of a request answered with success is answered with
\* the same translations and without a provider call
C40_RepetitionFromCache ==
    Repeated =>
        /\ responses[2] = responses[1]
        /\ providerCalls = <<>>

====
